---- MODULE Spec2Model ----
(***************************************************************************)
(* FrontAl: static heuristic analyzer for frontend bundles.                *)
(*                                                                         *)
(* The module models the size analyzer (modules/sizeAnalyzer.js), the      *)
(* duplication detector (modules/duplicationDetector.js), the performance  *)
(* analyzer (modules/performanceAnalyzer.js) and the scorer                *)
(* (modules/scorer.js), together with the static pipeline of app.js that   *)
(* chains them; and, for URL mode, the audit client, the backend's         *)
(* POST /audit and the adapter of the audit's report                       *)
(* (modules/lighthouseAdapter.js).                                         *)
(*                                                                         *)
(* Representation choices                                                  *)
(*  - A percentage is held in tenths of a percent (the code keeps the      *)
(*    string produced by toFixed(1) and compares it numerically): "70.0"   *)
(*    is 700, so the code's `> 70` is `> 700` here.                        *)
(*  - A file's content is held as its length and the matches the           *)
(*    analyzers' regular expressions find in it (a count, or the sequence  *)
(*    of matched texts where the code groups equal matches).               *)
(*  - A message text is held as its title and the numbers it embeds.       *)
(***************************************************************************)
EXTENDS Integers, Sequences, FiniteSets, TLC

VARIABLES
    files,               \* the file set handed to the analyzers (app.js filesToAnalyze)
    sizeResults,         \* result of analyzeSizes, or Null
    duplicationResults,  \* result of detectDuplication, or Null
    performanceResults,  \* result of analyzePerformance, or Null
    scoreResults,        \* result of calculateScore, or Null
    lighthouseScoreResults, \* score part of the adapted audit, or Null
    combinedResults,     \* result of calculateCombinedUrlScore, or Null
    baseline,            \* score of the input before it was made worse, or Null
    invocations          \* the calls of the analyzer and scorer functions made so far:
                         \* function, arguments and what the call returned

\* URL mode: the page (app.js runLighthouseAnalysis), the audit client
\* (fetchLighthouseAudit) and the backend (backend/server.js)
VARIABLES
    clientPc,        \* where the page's run stands: "idle" (no audit asked for),
                     \* "delay", "fetch", "parse", "done" (the audit call has settled)
    timeoutId,       \* the client's timer: "none", "armed", "fired", "cleared"
    aborted,         \* controller.signal.aborted
    request,         \* the HTTP exchange as the client sees it:
                     \* "none", "sent", "answered", "failed", "aborted"
    response,        \* the answer of the backend on the wire, or Null
    auditOutcomes,   \* settlements of the promise of fetchLighthouseAudit, in order
    requestsIssued,  \* endpoints the page has requested in this run, in order
    serverPc,        \* where POST /audit stands: "idle", "launching", "running", "responded"
    serverTimeoutId, \* the timer of withTimeout: "none", "armed", "fired", "cleared"
    withTimeoutSettled, \* settlement of the promise of withTimeout, or Null
    chrome,          \* the browser of runLighthouse: "none", "running", "killed", or
                     \* "kill failed" when chrome.kill() threw and the browser is left
    loading,         \* setLoadingState: the analyze button is disabled
    resultsMode,     \* setResultsMode: "static" or "lighthouse"
    errorCard,       \* the message of the error card, "" when hidden
    rendered,        \* what renderResults was given, or Null; under SpecAdapter
                     \* what adaptLighthouseResults returned or threw
    lastAuditUrl,    \* the URL of the run, or Null
    runner           \* the promise of lighthouseRunner: "none", "pending", "settled"

\* the page with several analyses started one after another (SpecPage)
VARIABLES
    currentMode,     \* the input mode of the page: "paste", "upload" or "url"
    runs,            \* the analyses that entered the loading state, in the order
                     \* they were started: what started them, their input, whether
                     \* they are pending or finished, and whether switchMode was
                     \* called while they were pending
    resultsSection   \* the results section: its class hidden, its aria-busy, and
                     \* the run whose showResultsSection() made it visible (0 for
                     \* an analysis that ended before the loading state)

pageVars == <<currentMode, runs, resultsSection>>

auditVars == <<clientPc, timeoutId, aborted, request, response, auditOutcomes,
               requestsIssued, serverPc, serverTimeoutId, withTimeoutSettled, chrome,
               loading, resultsMode, errorCard, rendered, lastAuditUrl, runner,
               currentMode, runs, resultsSection>>

analysisVars == <<files, sizeResults, duplicationResults, performanceResults,
                  scoreResults, lighthouseScoreResults, combinedResults, baseline,
                  invocations>>

vars == <<files, sizeResults, duplicationResults, performanceResults,
          scoreResults, lighthouseScoreResults, combinedResults, baseline,
          invocations,
          clientPc, timeoutId, aborted, request, response, auditOutcomes,
          requestsIssued, serverPc, serverTimeoutId, withTimeoutSettled, chrome,
          loading, resultsMode, errorCard, rendered, lastAuditUrl, runner,
          currentMode, runs, resultsSection>>

Null == [null |-> TRUE]

\* no URL analysis has been started
AuditIdle ==
    /\ clientPc = "idle"
    /\ timeoutId = "none"
    /\ aborted = FALSE
    /\ request = "none"
    /\ response = Null
    /\ auditOutcomes = <<>>
    /\ requestsIssued = <<>>
    /\ serverPc = "idle"
    /\ serverTimeoutId = "none"
    /\ withTimeoutSettled = Null
    /\ chrome = "none"
    /\ loading = FALSE
    /\ resultsMode = "static"
    /\ errorCard = ""
    /\ rendered = Null
    /\ lastAuditUrl = Null
    /\ runner = "none"
    /\ currentMode = "paste"
    /\ runs = <<>>
    /\ resultsSection = [hidden |-> TRUE, busy |-> FALSE, shownBy |-> 0]

(***************************************************************************)
(* Bounds of the model                                                     *)
(***************************************************************************)
MaxFiles == 2        \* files in one analysed file set
MaxDuplicates == 22  \* findings in a hand-built duplication report
MaxErrors == 21      \* error issues in a hand-built performance report
MaxWarnings == 9     \* warning issues in a hand-built performance report
MaxInfos == 7        \* info issues in a hand-built performance report
MaxAudits == 3       \* audit requests the page issues in one behaviour
MaxShortList == 3    \* audits in a raw report whose audits are of any kinds
MaxAuditEntries == 16 \* audits in a raw report whose kinds follow a pattern
MaxInvocations == 3  \* calls of the analyzer and scorer functions in one behaviour

Max(a, b) == IF a >= b THEN a ELSE b
Min(a, b) == IF a <= b THEN a ELSE b

\* Math.round replaced by truncation
RoundHalfDown(k) == k \div 2

\* Math.round on a half-integer k/2 (k >= 0): halves round up
RoundHalf(k) == (k + 1) \div 2

\* Math.round(n * 0.1) replaced by truncation
RoundTenthDown(n) == n \div 10

\* Math.round(n * 0.1) for an integer n >= 0
RoundTenth(n) == (n + 5) \div 10

\* array.filter(i => i.severity === sev)
BySeverity(list, sev) == SelectSeq(list, LAMBDA i : i.severity = sev)

(***************************************************************************)
(* modules/scorer.js                                                       *)
(***************************************************************************)
\* getGradeAndCategory with the lower bound of each band excluded
getGradeAndCategoryExclusive(score) ==
    IF score > 90 THEN [grade |-> "A", category |-> "good"]
    ELSE IF score > 75 THEN [grade |-> "B", category |-> "good"]
    ELSE IF score > 60 THEN [grade |-> "C", category |-> "warning"]
    ELSE IF score > 40 THEN [grade |-> "D", category |-> "warning"]
    ELSE [grade |-> "F", category |-> "danger"]

getGradeAndCategory(score) ==
    IF score >= 90 THEN [grade |-> "A", category |-> "good"]
    ELSE IF score >= 75 THEN [grade |-> "B", category |-> "good"]
    ELSE IF score >= 60 THEN [grade |-> "C", category |-> "warning"]
    ELSE IF score >= 40 THEN [grade |-> "D", category |-> "warning"]
    ELSE [grade |-> "F", category |-> "danger"]

\* generateSummary with the advisory limits not strict
generateSummaryAtMost80(score, details) ==
    LET base == IF score >= 90 THEN "Excellent"
                ELSE IF score >= 75 THEN "Good job"
                ELSE IF score >= 60 THEN "Decent"
                ELSE IF score >= 40 THEN "Several issues"
                ELSE "Significant problems"
    IN  <<base>>
        \o (IF details.sizeScore <= 80 THEN <<"size advice">> ELSE <<>>)
        \o (IF details.duplicationScore <= 80 THEN <<"duplication advice">> ELSE <<>>)
        \o (IF details.performanceScore <= 80 THEN <<"performance advice">> ELSE <<>>)

generateSummary(score, details) ==
    LET base == IF score >= 90 THEN "Excellent"
                ELSE IF score >= 75 THEN "Good job"
                ELSE IF score >= 60 THEN "Decent"
                ELSE IF score >= 40 THEN "Several issues"
                ELSE "Significant problems"
    IN  <<base>>
        \o (IF details.sizeScore < 80 THEN <<"size advice">> ELSE <<>>)
        \o (IF details.duplicationScore < 80 THEN <<"duplication advice">> ELSE <<>>)
        \o (IF details.performanceScore < 80 THEN <<"performance advice">> ELSE <<>>)

\* the bundle-size tier with decimal thresholds in place of the 1024-based ones
SizeTierDeductionDecimal(totalSize) ==
    IF totalSize > 1000000 THEN <<[reason |-> "Bundle size > 1MB", points |-> 30]>>
    ELSE IF totalSize > 500000 THEN <<[reason |-> "Bundle size > 500KB", points |-> 20]>>
    ELSE IF totalSize > 250000 THEN <<[reason |-> "Bundle size > 250KB", points |-> 10]>>
    ELSE <<>>

\* the bundle-size tier of calculateScore
SizeTierDeduction(totalSize) ==
    IF totalSize > 1024 * 1024 THEN <<[reason |-> "Bundle size > 1MB", points |-> 30]>>
    ELSE IF totalSize > 500 * 1024 THEN <<[reason |-> "Bundle size > 500KB", points |-> 20]>>
    ELSE IF totalSize > 250 * 1024 THEN <<[reason |-> "Bundle size > 250KB", points |-> 10]>>
    ELSE <<>>

\* the JavaScript-share tier with the lower threshold tested first
JsShareDeductionLowFirst(jsPercent) ==
    IF jsPercent > 700 THEN <<[reason |-> "JavaScript > 70% of bundle", points |-> 5]>>
    ELSE IF jsPercent > 800 THEN <<[reason |-> "JavaScript > 80% of bundle", points |-> 10]>>
    ELSE <<>>

\* the JavaScript-share tier of calculateScore
JsShareDeduction(jsPercent) ==
    IF jsPercent > 800 THEN <<[reason |-> "JavaScript > 80% of bundle", points |-> 10]>>
    ELSE IF jsPercent > 700 THEN <<[reason |-> "JavaScript > 70% of bundle", points |-> 5]>>
    ELSE <<>>

\* the duplication tier with the points of the two upper tiers exchanged
DuplicationDeductionSwapped(duplicateCount) ==
    IF duplicateCount > 20 THEN <<[reason |-> "20+ duplication issues", points |-> 15]>>
    ELSE IF duplicateCount > 10 THEN <<[reason |-> "10+ duplication issues", points |-> 25]>>
    ELSE IF duplicateCount > 5 THEN <<[reason |-> "5+ duplication issues", points |-> 10]>>
    ELSE IF duplicateCount > 0 THEN <<[reason |-> "Some duplication detected", points |-> 5]>>
    ELSE <<>>

\* the duplication tier with inclusive thresholds
DuplicationDeductionInclusive(duplicateCount) ==
    IF duplicateCount >= 20 THEN <<[reason |-> "20+ duplication issues", points |-> 25]>>
    ELSE IF duplicateCount >= 10 THEN <<[reason |-> "10+ duplication issues", points |-> 15]>>
    ELSE IF duplicateCount >= 5 THEN <<[reason |-> "5+ duplication issues", points |-> 10]>>
    ELSE IF duplicateCount > 0 THEN <<[reason |-> "Some duplication detected", points |-> 5]>>
    ELSE <<>>

\* the duplication tier of calculateScore
DuplicationDeduction(duplicateCount) ==
    IF duplicateCount > 20 THEN <<[reason |-> "20+ duplication issues", points |-> 25]>>
    ELSE IF duplicateCount > 10 THEN <<[reason |-> "10+ duplication issues", points |-> 15]>>
    ELSE IF duplicateCount > 5 THEN <<[reason |-> "5+ duplication issues", points |-> 10]>>
    ELSE IF duplicateCount > 0 THEN <<[reason |-> "Some duplication detected", points |-> 5]>>
    ELSE <<>>

\* a severity class deducted without its cap
SeverityDeductionUncapped(count, each, cap, reason) ==
    LET d == count * each
    IN  IF d > 0 THEN <<[reason |-> reason, points |-> d]>> ELSE <<>>

\* one severity class of the performance deductions: `each` points per issue, at most `cap`
SeverityDeduction(count, each, cap, reason) ==
    LET d == Min(count * each, cap)
    IN  IF d > 0 THEN <<[reason |-> reason, points |-> d]>> ELSE <<>>

PerformanceDeduction(issues) ==
    SeverityDeduction(Len(BySeverity(issues, "error")), 5, 25, "critical performance issue(s)")
    \o SeverityDeduction(Len(BySeverity(issues, "warning")), 2, 15, "performance warning(s)")
    \o SeverityDeduction(Len(BySeverity(issues, "info")), 1, 5, "performance suggestion(s)")

RECURSIVE SumPoints(_)
SumPoints(deductions) ==
    IF deductions = <<>> THEN 0
    ELSE Head(deductions).points + SumPoints(Tail(deductions))

\* the final score without the lower clamp
FinalScoreUnclamped(sum) == sum

\* Math.max(0, x) of the final score
FinalScore(sum) == Max(0, sum)

calculateScore(sizeRes, dupRes, perfRes) ==
    LET sizeDed == SizeTierDeduction(sizeRes.totalSize)
                   \o JsShareDeduction(sizeRes.percentages.js)
        dupDed  == DuplicationDeduction(Len(dupRes.duplicates))
        perfDed == PerformanceDeduction(perfRes.issues)
        details == [sizeScore        |-> 100 - SumPoints(sizeDed),
                    duplicationScore |-> 100 - SumPoints(dupDed),
                    performanceScore |-> 100 - SumPoints(perfDed),
                    deductions       |-> sizeDed \o dupDed \o perfDed]
        score   == FinalScore(details.sizeScore + details.duplicationScore
                              + details.performanceScore - 200)
        grading == getGradeAndCategory(score)
    IN  [score    |-> score,
         grade    |-> grading.grade,
         category |-> grading.category,
         details  |-> details,
         summary  |-> generateSummary(score, details)]

\* Number.isFinite(r && r.score) ? clamp(round(r.score)) : null
SourceScore(r) ==
    IF r = Null THEN Null ELSE [value |-> Max(0, Min(100, r.score))]

calculateCombinedUrlScore(staticRes, lighthouseRes) ==
    LET s == SourceScore(staticRes)
        l == SourceScore(lighthouseRes)
        both == s # Null /\ l # Null
        \* weights are held in halves: 1 is 0.5, 2 is 1
        staticWeight == IF both THEN 1 ELSE IF s # Null THEN 2 ELSE 0
        lighthouseWeight == IF both THEN 1 ELSE IF s # Null THEN 0
                            ELSE IF l # Null THEN 2 ELSE 0
        sv == IF s = Null THEN 0 ELSE s.value
        lv == IF l = Null THEN 0 ELSE l.value
        combinedScore == RoundHalf(sv * staticWeight + lv * lighthouseWeight)
        base == IF staticRes # Null
                THEN staticRes.details
                ELSE [sizeScore |-> 100, duplicationScore |-> 100,
                      performanceScore |-> 100, deductions |-> <<>>]
        advisory(reason) ==
            IF lv < 90
            THEN <<[reason |-> reason, points |-> Max(1, RoundTenth(100 - lv))]>>
            ELSE <<>>
        details ==
            IF both
            THEN [base EXCEPT
                    !.performanceScore =
                        Max(0, Min(100, base.performanceScore + (combinedScore - sv))),
                    !.deductions = @ \o advisory("Lighthouse performance score impact")]
            ELSE IF s = Null /\ l # Null
            THEN [base EXCEPT
                    !.performanceScore = lv,
                    !.deductions = @ \o advisory("Lighthouse score below optimal range")]
            ELSE base
        grading == getGradeAndCategory(combinedScore)
    IN  [score    |-> combinedScore,
         grade    |-> grading.grade,
         category |-> grading.category,
         details  |-> details,
         summary  |-> generateSummary(combinedScore, details),
         mode     |-> "combined",
         sourceScores |-> [staticScore      |-> s,
                           lighthouseScore  |-> l,
                           staticWeight     |-> staticWeight,
                           lighthouseWeight |-> lighthouseWeight]]

(***************************************************************************)
(* Helpers for the analyzers                                               *)
(***************************************************************************)
\* what a forEach that pushes onto one array leaves there: the concatenation
\* of the lists ss[1], ..., ss[n]
Flatten(ss) ==
    LET acc[i \in 0..Len(ss)] == IF i = 0 THEN <<>> ELSE acc[i - 1] \o ss[i]
    IN  acc[Len(ss)]

\* files.reduce((sum, f) => sum + f.size, 0)
TotalSize(fs) ==
    LET acc[i \in 0..Len(fs)] == IF i = 0 THEN 0 ELSE acc[i - 1] + fs[i].size
    IN  acc[Len(fs)]

\* the sum over the files of the number of matches held in a content field
TotalCount(fs, field) ==
    LET acc[i \in 0..Len(fs)] ==
            IF i = 0 THEN 0 ELSE acc[i - 1] + fs[i].content[field]
    IN  acc[Len(fs)]

\* the matches of a content field over all the files, in file order
AllMatches(fs, field) == Flatten([i \in 1..Len(fs) |-> fs[i].content[field]])

\* files.filter(f => f.type === t)
OfType(fs, t) == SelectSeq(fs, LAMBDA f : f.type = t)

\* number of occurrences of key k among the matches
Count(matches, k) == Len(SelectSeq(matches, LAMBDA x : x = k))

\* Object.keys of a counting object: the distinct keys in order of first insertion
Keys(matches) ==
    LET acc[i \in 0..Len(matches)] ==
            IF i = 0 THEN <<>>
            ELSE IF Count(acc[i - 1], matches[i]) > 0 THEN acc[i - 1]
            ELSE Append(acc[i - 1], matches[i])
    IN  acc[Len(matches)]

\* the keys whose count exceeds the threshold, in insertion order
Repeated(matches, threshold) ==
    SelectSeq(Keys(matches), LAMBDA k : Count(matches, k) > threshold)

\* data.files: names of the files in which key k was matched, in file order
FilesWithKey(fs, field, k) ==
    Flatten([i \in 1..Len(fs) |->
                IF Count(fs[i].content[field], k) > 0 THEN <<fs[i].name>> ELSE <<>>])

\* names of the files with at least one match
FilesWithAny(fs, field) ==
    Flatten([i \in 1..Len(fs) |->
                IF fs[i].content[field] > 0 THEN <<fs[i].name>> ELSE <<>>])

\* ((part / total) * 100).toFixed(1), in tenths of a percent: the nearest tenth,
\* a tie going up.  (In double arithmetic a product that is an exact tie can
\* fall just below it and go down; no file set of the model has such a
\* JavaScript share.)
ToFixed1(part, total) == (2000 * part + total) \div (2 * total)

Finding(type, severity, title, count, code, file) ==
    [type |-> type, severity |-> severity, title |-> title,
     count |-> count, code |-> code, file |-> file]

(***************************************************************************)
(* modules/sizeAnalyzer.js                                                 *)
(***************************************************************************)
SizeIssue(severity, title) == [severity |-> severity, title |-> title]

Percentage(part, total) == IF total > 0 THEN ToFixed1(part, total) ELSE 0

\* the bundle rule with an inclusive threshold
LargeBundleIssueInclusive(totalSize) ==
    IF totalSize >= 500000 THEN <<SizeIssue("warning", "Large Bundle Size")>> ELSE <<>>

\* the JavaScript rule with the threshold of the bundle rule
LargeJsIssueBundleThreshold(jsBytes) ==
    IF jsBytes > 500000 THEN <<SizeIssue("error", "Large JavaScript Bundle")>> ELSE <<>>

\* the issue rules of analyzeSizes
LargeBundleIssue(totalSize) ==
    IF totalSize > 500000 THEN <<SizeIssue("warning", "Large Bundle Size")>> ELSE <<>>

LargeJsIssue(jsBytes) ==
    IF jsBytes > 250000 THEN <<SizeIssue("error", "Large JavaScript Bundle")>> ELSE <<>>

LargeCssIssue(cssBytes) ==
    IF cssBytes > 100000 THEN <<SizeIssue("warning", "Large CSS Bundle")>> ELSE <<>>

JsHeavyIssue(jsPercent) ==
    IF jsPercent > 700 THEN <<SizeIssue("warning", "JavaScript-Heavy Bundle")>> ELSE <<>>

analyzeSizes(fs) ==
    LET totalSize == TotalSize(fs)
        breakdown == [html |-> TotalSize(OfType(fs, "html")),
                      css  |-> TotalSize(OfType(fs, "css")),
                      js   |-> TotalSize(OfType(fs, "js"))]
        percentages == [html |-> Percentage(breakdown.html, totalSize),
                        css  |-> Percentage(breakdown.css, totalSize),
                        js   |-> Percentage(breakdown.js, totalSize)]
    IN  [totalSize   |-> totalSize,
         fileSizes   |-> [i \in 1..Len(fs) |-> fs[i].size],
         breakdown   |-> breakdown,
         percentages |-> percentages,
         issues      |-> LargeBundleIssue(totalSize)
                         \o LargeJsIssue(breakdown.js)
                         \o LargeCssIssue(breakdown.css)
                         \o JsHeavyIssue(percentages.js)]

(***************************************************************************)
(* modules/duplicationDetector.js                                          *)
(* content fields read here: functions, strings, loopFunctions,            *)
(* domQueries (JS); contexts, declarations, universalSelectors,            *)
(* deepNesting, vendorPrefixes (CSS); elements, inlineStyleAttrs (HTML).   *)
(***************************************************************************)
\* one finding per key whose count over all the files exceeds the threshold
KeyedFindings(fs, field, threshold, type, severity, title) ==
    LET all  == AllMatches(fs, field)
        keys == Repeated(all, threshold)
    IN  [i \in 1..Len(keys) |->
            Finding(type, severity, title, Count(all, keys[i]), keys[i],
                    FilesWithKey(fs, field, keys[i]))]

\* one aggregate finding when the count summed over all the files exceeds the threshold
AggregateFinding(fs, field, threshold, type, severity, title) ==
    LET total == TotalCount(fs, field)
    IN  IF total > threshold
        THEN <<Finding(type, severity, title, total, "", FilesWithAny(fs, field))>>
        ELSE <<>>

\* analyzeJSDuplication with the DOM query limit not strict
analyzeJSDuplicationFromThree(fs) ==
    KeyedFindings(fs, "functions", 1,
                  "JavaScript", "warning", "Duplicate Function Body")
    \o KeyedFindings(fs, "strings", 2,
                     "JavaScript", "info", "Repeated String Literal")
    \o AggregateFinding(fs, "loopFunctions", 0,
                        "JavaScript", "warning", "Anonymous Functions in Loops")
    \o KeyedFindings(fs, "domQueries", 2,
                     "JavaScript", "warning", "Repeated DOM Query")

analyzeJSDuplication(fs) ==
    KeyedFindings(fs, "functions", 1,
                  "JavaScript", "warning", "Duplicate Function Body")
    \o KeyedFindings(fs, "strings", 2,
                     "JavaScript", "info", "Repeated String Literal")
    \o AggregateFinding(fs, "loopFunctions", 0,
                        "JavaScript", "warning", "Anonymous Functions in Loops")
    \o KeyedFindings(fs, "domQueries", 3,
                     "JavaScript", "warning", "Repeated DOM Query")

\* selectors repeated inside one context of one file
checkDuplicateSelectors(selectors, fileName) ==
    LET keys == Repeated(selectors, 1)
    IN  [i \in 1..Len(keys) |->
            Finding("CSS", "warning", "Duplicate Selector",
                    Count(selectors, keys[i]), keys[i], <<fileName>>)]

\* analyzeCssDuplication with the universal selectors counted file by file
analyzeCssDuplicationPerFile(fs) ==
    Flatten([i \in 1..Len(fs) |->
                Flatten([j \in 1..Len(fs[i].content.contexts) |->
                            checkDuplicateSelectors(fs[i].content.contexts[j],
                                                    fs[i].name)])])
    \o KeyedFindings(fs, "declarations", 5,
                     "CSS", "info", "Repeated CSS Declaration")
    \o Flatten([i \in 1..Len(fs) |->
                   AggregateFinding(<<fs[i]>>, "universalSelectors", 1,
                                    "CSS", "warning", "Multiple Universal Selectors")])
    \o AggregateFinding(fs, "deepNesting", 0,
                        "CSS", "warning", "Deep Selector Nesting")
    \o AggregateFinding(fs, "vendorPrefixes", 10,
                        "CSS", "info", "Vendor Prefixes Detected")

analyzeCssDuplication(fs) ==
    Flatten([i \in 1..Len(fs) |->
                Flatten([j \in 1..Len(fs[i].content.contexts) |->
                            checkDuplicateSelectors(fs[i].content.contexts[j],
                                                    fs[i].name)])])
    \o KeyedFindings(fs, "declarations", 5,
                     "CSS", "info", "Repeated CSS Declaration")
    \o AggregateFinding(fs, "universalSelectors", 1,
                        "CSS", "warning", "Multiple Universal Selectors")
    \o AggregateFinding(fs, "deepNesting", 0,
                        "CSS", "warning", "Deep Selector Nesting")
    \o AggregateFinding(fs, "vendorPrefixes", 10,
                        "CSS", "info", "Vendor Prefixes Detected")

analyzeHtmlDuplication(fs) ==
    KeyedFindings(fs, "elements", 2,
                  "HTML", "info", "Repeated HTML Structure")
    \o AggregateFinding(fs, "inlineStyleAttrs", 10,
                        "HTML", "warning", "Excessive Inline Styles")

\* the findings for which the code increments stats.duplicateBlocks
CountsAsBlock(d) ==
    d.title \in {"Duplicate Function Body", "Duplicate Selector", "Repeated HTML Structure"}

detectDuplication(fs) ==
    LET htmlFiles == OfType(fs, "html")
        cssFiles  == OfType(fs, "css")
        jsFiles   == OfType(fs, "js")
        found == (IF Len(jsFiles) > 0 THEN analyzeJSDuplication(jsFiles) ELSE <<>>)
                 \o (IF Len(cssFiles) > 0 THEN analyzeCssDuplication(cssFiles) ELSE <<>>)
                 \o (IF Len(htmlFiles) > 0 THEN analyzeHtmlDuplication(htmlFiles) ELSE <<>>)
    IN  [duplicates |-> found,
         stats |-> [duplicateLines  |-> 0,
                    duplicateBlocks |-> Len(SelectSeq(found, CountsAsBlock))]]

(***************************************************************************)
(* modules/performanceAnalyzer.js                                          *)
(* content fields read here: blockingScripts, syncExternalScripts,         *)
(* longInlineStyles, elementCount, hasViewport, longInlineScripts,         *)
(* blockingCss, hasCacheControl (HTML); expensiveSelectors, imports,       *)
(* rules, complexAnimations (CSS); syncXHR, reflowTriggers, consoleLogs,   *)
(* libraries, eventListeners, intervals, clearIntervals (JS).              *)
(***************************************************************************)
Issue(severity, title, count, file) ==
    [severity |-> severity, title |-> title, count |-> count, file |-> file]

\* one issue of a file when the count exceeds the threshold
IssueIf(count, threshold, severity, title, file) ==
    IF count > threshold THEN <<Issue(severity, title, count, file)>> ELSE <<>>

HtmlPerformanceOfFile(f) ==
    LET c == f.content IN
    IssueIf(c.blockingScripts, 0, "error", "Render-Blocking Scripts", f.name)
    \o IssueIf(c.syncExternalScripts, 0, "warning", "Synchronous External Scripts", f.name)
    \o IssueIf(c.longInlineStyles, 5, "warning", "Excessive Inline Styles", f.name)
    \o IssueIf(c.elementCount, 1500, "warning", "Large DOM Size", f.name)
    \o (IF ~c.hasViewport
        THEN <<Issue("info", "Missing Viewport Meta Tag", 0, f.name)>> ELSE <<>>)
    \o IssueIf(c.longInlineScripts, 0, "warning", "Long Inline Scripts", f.name)
    \o IssueIf(c.blockingCss, 3, "warning", "Multiple Render-Blocking CSS Files", f.name)

analyzeHtmlPerformance(fs) ==
    Flatten([i \in 1..Len(fs) |-> HtmlPerformanceOfFile(fs[i])])

CssPerformanceOfFile(f) ==
    LET c == f.content IN
    IssueIf(c.expensiveSelectors, 5, "warning", "Expensive CSS Selectors", f.name)
    \o IssueIf(c.imports, 0, "error", "CSS @import Usage", f.name)
    \o IssueIf(c.rules, 1000, "warning", "Large CSS File", f.name)
    \o IssueIf(c.complexAnimations, 0, "info", "Layout-Triggering Animations", f.name)

analyzeCssPerformance(fs) ==
    Flatten([i \in 1..Len(fs) |-> CssPerformanceOfFile(fs[i])])

JsPerformanceOfFile(f) ==
    LET c == f.content IN
    IssueIf(c.syncXHR, 0, "error", "Synchronous XMLHttpRequest", f.name)
    \o IssueIf(c.reflowTriggers, 20, "warning", "Potential Forced Reflows", f.name)
    \o IssueIf(c.consoleLogs, 5, "info", "Console Statements", f.name)
    \o IssueIf(c.libraries, 0, "info", "Large Utility Libraries Detected", f.name)
    \o IssueIf(c.eventListeners, 20, "info", "Many Event Listeners", f.name)
    \o IssueIf(c.intervals, c.clearIntervals, "warning", "Potential Memory Leak", f.name)

analyzeJsPerformance(fs) ==
    Flatten([i \in 1..Len(fs) |-> JsPerformanceOfFile(fs[i])])

Recommendation(priority, title) == [priority |-> priority, title |-> title]

\* the recommendations without the unconditional ones
generateRecommendationsConditionalOnly(fs) ==
    LET totalSize == TotalSize(fs)
        jsSize    == TotalSize(OfType(fs, "js"))
        cssSize   == TotalSize(OfType(fs, "css"))
    IN  (IF 2 * jsSize > totalSize
         THEN <<Recommendation("high", "Reduce JavaScript Execution Time")>> ELSE <<>>)
        \o (IF 10 * cssSize > 3 * totalSize
            THEN <<Recommendation("medium", "Optimize CSS Delivery")>> ELSE <<>>)

generateRecommendations(fs) ==
    LET totalSize == TotalSize(fs)
        jsSize    == TotalSize(OfType(fs, "js"))
        cssSize   == TotalSize(OfType(fs, "css"))
        uncached  == SelectSeq(fs, LAMBDA f : f.type = "html" /\ ~f.content.hasCacheControl)
    IN  (IF 2 * jsSize > totalSize
         THEN <<Recommendation("high", "Reduce JavaScript Execution Time")>> ELSE <<>>)
        \o (IF 10 * cssSize > 3 * totalSize
            THEN <<Recommendation("medium", "Optimize CSS Delivery")>> ELSE <<>>)
        \o <<Recommendation("high", "Enable Text Compression"),
             Recommendation("medium", "Implement Resource Hints")>>
        \o (IF Len(uncached) > 0
            THEN <<Recommendation("medium", "Leverage Browser Caching")>> ELSE <<>>)
        \o <<Recommendation("high", "Minimize Main-Thread Work"),
             Recommendation("low", "Optimize Images")>>

\* generateRecommendations of the module's other revision (lines 605-665):
\* the CSS recommendation keyed off an absolute number of bytes
generateRecommendationsCssBytes(fs) ==
    LET totalSize == TotalSize(fs)
        jsSize    == TotalSize(OfType(fs, "js"))
        cssSize   == TotalSize(OfType(fs, "css"))
        uncached  == SelectSeq(fs, LAMBDA f : f.type = "html" /\ ~f.content.hasCacheControl)
    IN  (IF 2 * jsSize > totalSize
         THEN <<Recommendation("high", "Reduce JavaScript Execution Time")>> ELSE <<>>)
        \o (IF cssSize > 50000
            THEN <<Recommendation("medium", "Optimize CSS Delivery")>> ELSE <<>>)
        \o <<Recommendation("high", "Enable Text Compression"),
             Recommendation("medium", "Implement Resource Hints")>>
        \o (IF Len(uncached) > 0
            THEN <<Recommendation("medium", "Leverage Browser Caching")>> ELSE <<>>)
        \o <<Recommendation("high", "Minimize Main-Thread Work"),
             Recommendation("low", "Optimize Images")>>

\* analyzePerformance with the recommendations of the other revision
analyzePerformanceOtherRevision(fs) ==
    LET htmlFiles == OfType(fs, "html")
        cssFiles  == OfType(fs, "css")
        jsFiles   == OfType(fs, "js")
        found == (IF Len(htmlFiles) > 0 THEN analyzeHtmlPerformance(htmlFiles) ELSE <<>>)
                 \o (IF Len(cssFiles) > 0 THEN analyzeCssPerformance(cssFiles) ELSE <<>>)
                 \o (IF Len(jsFiles) > 0 THEN analyzeJsPerformance(jsFiles) ELSE <<>>)
    IN  [issues          |-> found,
         recommendations |-> generateRecommendationsCssBytes(fs)]

analyzePerformance(fs) ==
    LET htmlFiles == OfType(fs, "html")
        cssFiles  == OfType(fs, "css")
        jsFiles   == OfType(fs, "js")
        found == (IF Len(htmlFiles) > 0 THEN analyzeHtmlPerformance(htmlFiles) ELSE <<>>)
                 \o (IF Len(cssFiles) > 0 THEN analyzeCssPerformance(cssFiles) ELSE <<>>)
                 \o (IF Len(jsFiles) > 0 THEN analyzeJsPerformance(jsFiles) ELSE <<>>)
    IN  [issues          |-> found,
         recommendations |-> generateRecommendations(fs)]

(***************************************************************************)
(* Inputs: file sets                                                       *)
(***************************************************************************)
\* what the analyzers' patterns match in the empty text
EmptyContent ==
    [functions |-> <<>>, strings |-> <<>>, loopFunctions |-> 0, domQueries |-> <<>>,
     contexts |-> <<<<>>>>, declarations |-> <<>>, universalSelectors |-> 0,
     deepNesting |-> 0, vendorPrefixes |-> 0,
     elements |-> <<>>, inlineStyleAttrs |-> 0,
     blockingScripts |-> 0, syncExternalScripts |-> 0, longInlineStyles |-> 0,
     elementCount |-> 0, hasViewport |-> FALSE, longInlineScripts |-> 0,
     blockingCss |-> 0, hasCacheControl |-> FALSE,
     expensiveSelectors |-> 0, imports |-> 0, rules |-> 0, complexAnimations |-> 0,
     syncXHR |-> 0, reflowTriggers |-> 0, consoleLogs |-> 0, libraries |-> 0,
     eventListeners |-> 0, intervals |-> 0, clearIntervals |-> 0]

Sample(type, size, content) == [type |-> type, size |-> size, content |-> content]

\* Texts a file can hold, each given by its length and by what the patterns of
\* the analyzers of its language match in it.
SampleFiles ==
    {
      \* 'x' repeated 700 times
      Sample("js", 700, EmptyContent),
      \* 'x' repeated 701 times
      Sample("js", 701, EmptyContent),
      \* 'x' repeated 250000 times
      Sample("js", 250000, EmptyContent),
      \* 'x' repeated 250001 times
      Sample("js", 250001, EmptyContent),
      \* 'x' repeated 300000 times
      Sample("js", 300000, EmptyContent),
      \* 'x' repeated 307200 times
      Sample("js", 307200, EmptyContent),
      \* 'x' repeated 512000 times
      Sample("js", 512000, EmptyContent),
      \* the same function declared twice
      Sample("js", 108, [EmptyContent EXCEPT !.functions = <<"function init(a) { var total = a + 1; return total; }", "function init(a) { var total = a + 1; return total; }">>]),
      \* one string literal used three times
      Sample("js", 96, [EmptyContent EXCEPT !.strings = <<"\"a fairly long string\"", "\"a fairly long string\"", "\"a fairly long string\"">>]),
      \* an inline function created inside a forEach body
      Sample("js", 66, [EmptyContent EXCEPT !.loopFunctions = 1]),
      \* document.getElementById(id) three times
      Sample("js", 87, [EmptyContent EXCEPT !.domQueries = <<"document.getElementById(id)", "document.getElementById(id)", "document.getElementById(id)">>]),
      \* document.getElementById(id) four times
      Sample("js", 116, [EmptyContent EXCEPT !.domQueries = <<"document.getElementById(id)", "document.getElementById(id)", "document.getElementById(id)", "document.getElementById(id)">>]),
      \* document.querySelector("#a") three times, then document.querySelector("#b") three times
      Sample("js", 179, [EmptyContent EXCEPT !.strings = <<"\"); document.querySelector(\"", "\"); document.querySelector(\"", "\"); document.querySelector(\"", "\"); document.querySelector(\"", "\"); document.querySelector(\"">>, !.domQueries = <<"document.querySelector(\"#a\")", "document.querySelector(\"#a\")", "document.querySelector(\"#a\")", "document.querySelector(\"#b\")", "document.querySelector(\"#b\")", "document.querySelector(\"#b\")">>]),
      \* a synchronous XHR
      Sample("js", 31, [EmptyContent EXCEPT !.syncXHR = 1]),
      \* 21 layout reads
      Sample("js", 336, [EmptyContent EXCEPT !.reflowTriggers = 21]),
      \* 6 console.log calls
      Sample("js", 90, [EmptyContent EXCEPT !.consoleLogs = 6]),
      \* a jQuery call
      Sample("js", 13, [EmptyContent EXCEPT !.libraries = 1]),
      \* 21 addEventListener calls
      Sample("js", 546, [EmptyContent EXCEPT !.eventListeners = 21]),
      \* a setInterval that is never cleared
      Sample("js", 24, [EmptyContent EXCEPT !.intervals = 1]),
      \* 'x' repeated 100000 times
      Sample("css", 100000, EmptyContent),
      \* 'x' repeated 100001 times
      Sample("css", 100001, EmptyContent),
      \* * { margin: 0; }
      Sample("css", 16, [EmptyContent EXCEPT !.contexts = <<<<"*">>>>, !.declarations = <<"margin: 0">>, !.universalSelectors = 1, !.expensiveSelectors = 1, !.rules = 1]),
      \* * { margin: 0; } * { padding: 0; }
      Sample("css", 34, [EmptyContent EXCEPT !.contexts = <<<<"*", "*">>>>, !.declarations = <<"margin: 0", "padding: 0">>, !.universalSelectors = 2, !.deepNesting = 1, !.expensiveSelectors = 2, !.rules = 2]),
      \* six rules with the declaration color: red
      Sample("css", 96, [EmptyContent EXCEPT !.contexts = <<<<".c0", ".c1", ".c2", ".c3", ".c4", ".c5">>>>, !.declarations = <<"color: red", "color: red", "color: red", "color: red", "color: red", "color: red">>, !.deepNesting = 1, !.rules = 6]),
      \* main section article ul li { margin: 0; }
      Sample("css", 41, [EmptyContent EXCEPT !.contexts = <<<<"main section article ul li">>>>, !.declarations = <<"margin: 0">>, !.deepNesting = 1, !.rules = 1]),
      \* 11 vendor-prefixed properties
      Sample("css", 192, [EmptyContent EXCEPT !.contexts = <<<<".v">>>>, !.declarations = <<"-webkit-order: 0", "-webkit-order: 1", "-webkit-order: 2", "-webkit-order: 3", "-webkit-order: 4", "-webkit-order: 5", "-webkit-order: 6", "-webkit-order: 7", "-webkit-order: 8", "-webkit-order: 9", "-webkit-order: 10">>, !.vendorPrefixes = 11, !.rules = 1]),
      \* .a in the global scope and again inside one @media block
      Sample("css", 62, [EmptyContent EXCEPT !.contexts = <<<<".a">>, <<".a">>>>, !.declarations = <<"color: red", "max-width: 600px) { .a{color: blue">>, !.deepNesting = 1, !.rules = 2]),
      \* six :nth-child selectors
      Sample("css", 132, [EmptyContent EXCEPT !.contexts = <<<<"li:nth-child(0)", "li:nth-child(1)", "li:nth-child(2)", "li:nth-child(3)", "li:nth-child(4)", "li:nth-child(5)">>>>, !.expensiveSelectors = 6, !.rules = 6]),
      \* @import url("a.css");
      Sample("css", 21, [EmptyContent EXCEPT !.imports = 1]),
      \* {a} repeated 1001 times
      Sample("css", 3003, [EmptyContent EXCEPT !.rules = 1001]),
      \* a keyframes animation of width
      Sample("css", 58, [EmptyContent EXCEPT !.contexts = <<<<"to">>>>, !.declarations = <<"width: 0", "width: 10px">>, !.deepNesting = 1, !.rules = 2, !.complexAnimations = 1]),
      \* viewport meta tag padded with 'x' to 299 characters
      Sample("html", 299, [EmptyContent EXCEPT !.elementCount = 1, !.hasViewport = TRUE]),
      \* viewport meta tag padded with 'x' to 300 characters
      Sample("html", 300, [EmptyContent EXCEPT !.elementCount = 1, !.hasViewport = TRUE]),
      \* viewport meta tag padded with 'x' to 256000 characters
      Sample("html", 256000, [EmptyContent EXCEPT !.elementCount = 1, !.hasViewport = TRUE]),
      \* viewport meta tag padded with 'x' to 256001 characters
      Sample("html", 256001, [EmptyContent EXCEPT !.elementCount = 1, !.hasViewport = TRUE]),
      \* viewport meta tag padded with 'x' to 500000 characters
      Sample("html", 500000, [EmptyContent EXCEPT !.elementCount = 1, !.hasViewport = TRUE]),
      \* viewport meta tag padded with 'x' to 500001 characters
      Sample("html", 500001, [EmptyContent EXCEPT !.elementCount = 1, !.hasViewport = TRUE]),
      \* <p>hello</p>
      Sample("html", 12, [EmptyContent EXCEPT !.elementCount = 1]),
      \* <div style="color: red;"></div> repeated 11 times
      Sample("html", 341, [EmptyContent EXCEPT !.elements = <<"<div style=\"color: red;\"></div>", "<div style=\"color: red;\"></div>", "<div style=\"color: red;\"></div>", "<div style=\"color: red;\"></div>", "<div style=\"color: red;\"></div>", "<div style=\"color: red;\"></div>", "<div style=\"color: red;\"></div>", "<div style=\"color: red;\"></div>", "<div style=\"color: red;\"></div>", "<div style=\"color: red;\"></div>", "<div style=\"color: red;\"></div>">>, !.inlineStyleAttrs = 11, !.elementCount = 11]),
      \* viewport meta tag and 11 short styled <i> elements
      Sample("html", 260, [EmptyContent EXCEPT !.inlineStyleAttrs = 11, !.elementCount = 12, !.hasViewport = TRUE]),
      \* viewport meta tag and an inline <script>
      Sample("html", 73, [EmptyContent EXCEPT !.blockingScripts = 1, !.elementCount = 2, !.hasViewport = TRUE]),
      \* viewport meta tag and <script src="a.js">
      Sample("html", 79, [EmptyContent EXCEPT !.syncExternalScripts = 1, !.elementCount = 2, !.hasViewport = TRUE]),
      \* viewport meta tag and 6 style attributes of 50 characters
      Sample("html", 447, [EmptyContent EXCEPT !.elements = <<"<b style=\"color:red;color:red;color:red;color:red;color:red;\"></b>", "<b style=\"color:red;color:red;color:red;color:red;color:red;\"></b>", "<b style=\"color:red;color:red;color:red;color:red;color:red;\"></b>", "<b style=\"color:red;color:red;color:red;color:red;color:red;\"></b>", "<b style=\"color:red;color:red;color:red;color:red;color:red;\"></b>", "<b style=\"color:red;color:red;color:red;color:red;color:red;\"></b>">>, !.inlineStyleAttrs = 6, !.longInlineStyles = 6, !.elementCount = 7, !.hasViewport = TRUE]),
      \* viewport meta tag and 1501 <b> tags
      Sample("html", 4554, [EmptyContent EXCEPT !.elementCount = 1502, !.hasViewport = TRUE]),
      \* viewport meta tag and an inline script of 1100 characters
      Sample("html", 1168, [EmptyContent EXCEPT !.blockingScripts = 1, !.elementCount = 2, !.hasViewport = TRUE, !.longInlineScripts = 1]),
      \* viewport meta tag and 4 stylesheet links
      Sample("html", 195, [EmptyContent EXCEPT !.elementCount = 5, !.hasViewport = TRUE, !.blockingCss = 4]),
      \* viewport meta tag and <meta http-equiv="cache-control" content="max-age=3600">
      Sample("html", 107, [EmptyContent EXCEPT !.elementCount = 2, !.hasViewport = TRUE, !.hasCacheControl = TRUE]),
      \* a text file, 'x' repeated 100 times
      Sample("unknown", 100, EmptyContent)
    }

\* createMockFile(name, type, content)
createMockFile(name, sample) ==
    [name |-> name, type |-> sample.type, size |-> sample.size, content |-> sample.content]

(***************************************************************************)
(* Inputs: hand-built reports, as the scorer's callers pass them           *)
(***************************************************************************)
TotalSizes == {0, 250 * 1024, 250 * 1024 + 1, 500 * 1024, 500 * 1024 + 1,
               1024 * 1024, 1024 * 1024 + 1}
JsPercents == {0, 700, 701, 800, 801}
DuplicateCounts == {0, 1, 5, 6, 10, 11, 20, 21, MaxDuplicates}
ErrorCounts == {0, 1, 4, 5, 6, 20, MaxErrors}
WarningCounts == {0, 1, 7, 8, MaxWarnings}
InfoCounts == {0, 1, 4, 5, 6, MaxInfos}

\* new Array(n).fill({ severity: sev })
Fill(n, sev) == [i \in 1..n |-> [severity |-> sev]]

MockSizeResults(totalSize, jsPercent) ==
    [totalSize   |-> totalSize,
     breakdown   |-> [html |-> 0, css |-> 0, js |-> 0],
     percentages |-> [html |-> 0, css |-> 0, js |-> jsPercent],
     issues      |-> <<>>]

MockDuplicationResults(n) == [duplicates |-> Fill(n, "info")]

MockPerformanceResults(e, w, i) ==
    [issues |-> Fill(e, "error") \o Fill(w, "warning") \o Fill(i, "info")]

(***************************************************************************)
(* modules/lighthouseAdapter.js                                            *)
(*  - A score of the raw report (a number in [0, 1] with two decimals) is  *)
(*    held in hundredths, so the code's `< 0.9` is `< 90` here.            *)
(*  - An object map (categories, audits) is held as the sequence of its    *)
(*    entries in insertion order, each carrying its key as id; the flags   *)
(*    hasCategories / hasAudits say whether the map is there at all.       *)
(*  - A number that may be missing is Missing when it is not a number;     *)
(*    every number of the report is non-negative.                          *)
(*  - A numeric value is held in the unit in which its thresholds are      *)
(*    whole (milliseconds; hundredths for the layout shift).               *)
(***************************************************************************)
\* typeof x !== 'number'
Missing == -1

getScoreCategory(score) ==
    IF score >= 90 THEN "good" ELSE IF score >= 70 THEN "warning" ELSE "danger"

\* Math.round(value / scale) for value >= 0
RoundDiv(value, scale) == (2 * value + scale) \div (2 * scale)

\* formatMs of a value held in 1/scale units
formatMs(value, scale) ==
    IF value = Missing THEN "--" ELSE ToString(RoundDiv(value, scale)) \o " ms"

getRating(value, thresholds) ==
    IF value = Missing THEN "warning"
    ELSE IF value <= thresholds.good THEN "good"
    ELSE IF value <= thresholds.warn THEN "warning"
    ELSE "danger"

\* audits[id]: the entries with that key (at most one), in a sequence
AuditsById(audits, id) == SelectSeq(audits, LAMBDA a : a.id = id)

\* buildMetric without the fallback audit
buildMetricWithoutFallback(audits, metric) ==
    LET found == AuditsById(audits, metric.id)
    IN  IF found = <<>> THEN <<>>
        ELSE LET audit == found[1]
             IN  <<[id     |-> metric.id,
                    label  |-> metric.label,
                    value  |-> IF audit.displayValue # "" THEN audit.displayValue
                               ELSE formatMs(audit.numericValue, metric.scale),
                    rating |-> getRating(audit.numericValue,
                                         [good |-> metric.good, warn |-> metric.warn])]>>

\* the metric entry in a one-element sequence, or the empty sequence for null
buildMetric(audits, metric) ==
    LET own == AuditsById(audits, metric.id)
        fallback == IF metric.fallbackId = "" THEN <<>>
                    ELSE AuditsById(audits, metric.fallbackId)
        found == IF own # <<>> THEN own ELSE fallback
    IN  IF found = <<>> THEN <<>>
        ELSE LET audit == found[1]
             IN  <<[id     |-> metric.id,
                    label  |-> metric.label,
                    value  |-> IF audit.displayValue # "" THEN audit.displayValue
                               ELSE formatMs(audit.numericValue, metric.scale),
                    rating |-> getRating(audit.numericValue,
                                         [good |-> metric.good, warn |-> metric.warn])]>>

\* the seven calls of buildMetric in adaptLighthouseResults, in order
CoreVitalMetrics ==
    <<[id |-> "first-contentful-paint", label |-> "First Contentful Paint",
       good |-> 1800, warn |-> 3000, scale |-> 1, fallbackId |-> ""],
      [id |-> "largest-contentful-paint", label |-> "Largest Contentful Paint",
       good |-> 2500, warn |-> 4000, scale |-> 1, fallbackId |-> ""],
      [id |-> "total-blocking-time", label |-> "Total Blocking Time",
       good |-> 200, warn |-> 600, scale |-> 1, fallbackId |-> ""],
      [id |-> "cumulative-layout-shift", label |-> "Cumulative Layout Shift",
       good |-> 10, warn |-> 25, scale |-> 100, fallbackId |-> ""],
      [id |-> "speed-index", label |-> "Speed Index",
       good |-> 3400, warn |-> 5800, scale |-> 1, fallbackId |-> ""],
      [id |-> "interactive", label |-> "Time to Interactive",
       good |-> 3800, warn |-> 7300, scale |-> 1, fallbackId |-> ""],
      [id |-> "interaction-to-next-paint", label |-> "Interaction to Next Paint",
       good |-> 200, warn |-> 500, scale |-> 1, fallbackId |-> "first-input-delay"]>>

\* Array.prototype.sort with a comparator that subtracts two numbers: the
\* entries [key, item] in ascending order of key, equal keys keeping their order
RECURSIVE SortByKey(_)
SortByKey(s) ==
    IF s = <<>> THEN <<>>
    ELSE LET sorted == SortByKey(SubSeq(s, 1, Len(s) - 1))
             x == s[Len(s)]
             notAfter == {i \in 1..Len(sorted) : sorted[i].key <= x.key}
             pos == IF notAfter = {} THEN 0
                    ELSE CHOOSE i \in notAfter : \A j \in notAfter : j <= i
         IN  SubSeq(sorted, 1, pos) \o <<x>> \o SubSeq(sorted, pos + 1, Len(sorted))

\* array.slice(0, n)
Slice(s, n) == SubSeq(s, 1, Min(n, Len(s)))

\* buildIssues with the cap applied before the sort
buildIssuesCappedBeforeSort(audits) ==
    LET numeric == SelectSeq(audits, LAMBDA a :
                       a.scoreDisplayMode = "numeric" /\ a.score # Missing)
        low == Slice(SelectSeq(numeric, LAMBDA a : a.score < 90), 8)
        auditList == SortByKey([i \in 1..Len(low) |-> [key |-> low[i].score, item |-> low[i]]])
    IN  [i \in 1..Len(auditList) |->
            LET audit == auditList[i].item
            IN  [severity |-> IF audit.score < 50 THEN "error"
                              ELSE IF audit.score < 90 THEN "warning" ELSE "info",
                 title |-> audit.title,
                 displayValue |-> audit.displayValue]]

buildIssues(audits) ==
    LET numeric == SelectSeq(audits, LAMBDA a :
                       a.scoreDisplayMode = "numeric" /\ a.score # Missing)
        low == SelectSeq(numeric, LAMBDA a : a.score < 90)
        sorted == SortByKey([i \in 1..Len(low) |-> [key |-> low[i].score, item |-> low[i]]])
        auditList == Slice(sorted, 8)
    IN  [i \in 1..Len(auditList) |->
            LET audit == auditList[i].item
            IN  [severity |-> IF audit.score < 50 THEN "error"
                              ELSE IF audit.score < 90 THEN "warning" ELSE "info",
                 title |-> audit.title,
                 displayValue |-> audit.displayValue]]

\* value || 0
OrZero(value) == IF value = Missing THEN 0 ELSE value

\* buildRecommendations with the priority limits not strict
buildRecommendationsAtLeast(audits) ==
    LET opps == SelectSeq(audits, LAMBDA a : a.detailsType = "opportunity")
        sorted == SortByKey([i \in 1..Len(opps) |->
                      [key |-> 0 - OrZero(opps[i].overallSavingsMs), item |-> opps[i]]])
        opportunities == Slice(sorted, 8)
    IN  [i \in 1..Len(opportunities) |->
            LET audit == opportunities[i].item
                savingsMs == OrZero(audit.overallSavingsMs)
                savingsBytes == OrZero(audit.overallSavingsBytes)
            IN  [priority |-> IF savingsMs >= 1200 THEN "high"
                              ELSE IF savingsMs >= 300 THEN "medium" ELSE "low",
                 title |-> audit.title,
                 savingsMs |-> savingsMs,
                 savingsBytes |-> savingsBytes]]

buildRecommendations(audits) ==
    LET opps == SelectSeq(audits, LAMBDA a : a.detailsType = "opportunity")
        sorted == SortByKey([i \in 1..Len(opps) |->
                      [key |-> 0 - OrZero(opps[i].overallSavingsMs), item |-> opps[i]]])
        opportunities == Slice(sorted, 8)
    IN  [i \in 1..Len(opportunities) |->
            LET audit == opportunities[i].item
                savingsMs == OrZero(audit.overallSavingsMs)
                savingsBytes == OrZero(audit.overallSavingsBytes)
            IN  [priority |-> IF savingsMs > 1200 THEN "high"
                              ELSE IF savingsMs > 300 THEN "medium" ELSE "low",
                 title |-> audit.title,
                 savingsMs |-> savingsMs,
                 savingsBytes |-> savingsBytes]]

buildCategoryScores(categories) ==
    [i \in 1..Len(categories) |->
        LET score == OrZero(categories[i].score)
        IN  [id |-> categories[i].id,
             title |-> categories[i].title,
             score |-> score,
             status |-> getScoreCategory(score)]]

\* rawData && (rawData.lighthouse || rawData.lhr || rawData)
Unwrap(rawData) ==
    IF rawData = Null THEN Null
    ELSE IF rawData.lighthouse # Null THEN rawData.lighthouse
    ELSE IF rawData.lhr # Null THEN rawData.lhr
    ELSE rawData

\* the validation without the test of the audits map
InvalidLighthouseDataCategoriesOnly(rawData) ==
    LET lhr == Unwrap(rawData)
    IN  lhr = Null \/ ~lhr.hasCategories

\* the validation of adaptLighthouseResults: TRUE when it throws
InvalidLighthouseData(rawData) ==
    LET lhr == Unwrap(rawData)
    IN  lhr = Null \/ ~lhr.hasCategories \/ ~lhr.hasAudits

\* the value returned, or the error thrown, by adaptLighthouseResults
adaptLighthouseResults(rawData) ==
    IF InvalidLighthouseData(rawData)
    THEN [error |-> [message |-> "Invalid Lighthouse data.", code |-> ""]]
    ELSE LET lhr == Unwrap(rawData)
             categoryScores == buildCategoryScores(lhr.categories)
             performance == SelectSeq(categoryScores, LAMBDA c : c.id = "performance")
             score == IF performance # <<>> THEN performance[1].score ELSE 0
         IN  [performanceResults |-> [issues |-> buildIssues(lhr.audits),
                                      recommendations |-> buildRecommendations(lhr.audits),
                                      mode |-> "lighthouse"],
              scoreResults |-> [score |-> score,
                                category |-> getScoreCategory(score),
                                mode |-> "lighthouse"],
              lighthouseResults |->
                  [categoryScores |-> categoryScores,
                   coreVitals |-> Flatten([i \in 1..Len(CoreVitalMetrics) |->
                                     buildMetric(lhr.audits, CoreVitalMetrics[i])])]]

(***************************************************************************)
(* SpecStatic: a file set is put together and analysed, as the static      *)
(* pipeline of app.js does.                                                *)
(***************************************************************************)
InitStatic ==
    /\ files = <<>>
    /\ sizeResults = Null
    /\ duplicationResults = Null
    /\ performanceResults = Null
    /\ scoreResults = Null
    /\ lighthouseScoreResults = Null
    /\ combinedResults = Null
    /\ baseline = Null
    /\ invocations = <<>>
    /\ AuditIdle

AddFile(sample) ==
    /\ scoreResults = Null
    /\ Len(files) < MaxFiles
    /\ files' = Append(files, createMockFile(Len(files) + 1, sample))
    /\ UNCHANGED <<sizeResults, duplicationResults, performanceResults, scoreResults,
                   lighthouseScoreResults, combinedResults, baseline>>
    /\ UNCHANGED invocations
    /\ UNCHANGED auditVars

runStaticAnalysis ==
    /\ scoreResults = Null
    /\ sizeResults' = analyzeSizes(files)
    /\ duplicationResults' = detectDuplication(files)
    /\ performanceResults' = analyzePerformance(files)
    /\ scoreResults' = calculateScore(sizeResults', duplicationResults', performanceResults')
    /\ UNCHANGED <<files, lighthouseScoreResults, combinedResults, baseline>>
    /\ UNCHANGED invocations
    /\ UNCHANGED auditVars

NextStatic ==
    \/ \E sample \in SampleFiles : AddFile(sample)
    \/ runStaticAnalysis

SpecStatic == InitStatic /\ [][NextStatic]_vars

(***************************************************************************)
(* SpecScorer: calculateScore applied to hand-built reports, and applied   *)
(* again after one of the reports has been made worse.                     *)
(***************************************************************************)
InitScorer ==
    /\ files = <<>>
    /\ sizeResults \in {MockSizeResults(t, p) : t \in TotalSizes, p \in JsPercents}
    /\ duplicationResults \in {MockDuplicationResults(n) : n \in DuplicateCounts}
    /\ performanceResults \in {MockPerformanceResults(e, w, i) :
                                  e \in ErrorCounts, w \in WarningCounts, i \in InfoCounts}
    /\ scoreResults = Null
    /\ lighthouseScoreResults = Null
    /\ combinedResults = Null
    /\ baseline = Null
    /\ invocations = <<>>
    /\ AuditIdle

Score ==
    /\ scoreResults = Null
    /\ scoreResults' = calculateScore(sizeResults, duplicationResults, performanceResults)
    /\ UNCHANGED <<files, sizeResults, duplicationResults, performanceResults,
                   lighthouseScoreResults, combinedResults, baseline>>
    /\ UNCHANGED invocations
    /\ UNCHANGED auditVars

\* the reports are replaced by worse ones and scored again; the first score is kept
Rescore(sizeRes, dupRes, perfRes) ==
    /\ scoreResults # Null
    /\ baseline = Null
    /\ baseline' = scoreResults
    /\ sizeResults' = sizeRes
    /\ duplicationResults' = dupRes
    /\ performanceResults' = perfRes
    /\ scoreResults' = calculateScore(sizeRes, dupRes, perfRes)
    /\ UNCHANGED <<files, lighthouseScoreResults, combinedResults>>
    /\ UNCHANGED invocations
    /\ UNCHANGED auditVars

IncreaseTotalSize ==
    \E t \in TotalSizes :
        /\ t > sizeResults.totalSize
        /\ Rescore([sizeResults EXCEPT !.totalSize = t], duplicationResults, performanceResults)

IncreaseJsPercent ==
    \E p \in JsPercents :
        /\ p > sizeResults.percentages.js
        /\ Rescore([sizeResults EXCEPT !.percentages.js = p],
                   duplicationResults, performanceResults)

AddDuplicate ==
    Rescore(sizeResults,
            [duplicationResults EXCEPT !.duplicates = Append(@, [severity |-> "info"])],
            performanceResults)

AddIssue(sev) ==
    Rescore(sizeResults, duplicationResults,
            [performanceResults EXCEPT !.issues = Append(@, [severity |-> sev])])

NextScorer ==
    \/ Score
    \/ IncreaseTotalSize
    \/ IncreaseJsPercent
    \/ AddDuplicate
    \/ \E sev \in {"error", "warning", "info"} : AddIssue(sev)

SpecScorer == InitScorer /\ [][NextScorer]_vars

(***************************************************************************)
(* SpecCombined: a static score (or none, when the static analysis was     *)
(* skipped) and an audit score (or none) are combined.                    *)
(***************************************************************************)
\* the audit's performance score: Math.round(score * 100) of a score in [0, 1]
LighthouseScores == 0..100

InitCombined ==
    /\ files = <<>>
    /\ sizeResults \in {MockSizeResults(t, p) : t \in TotalSizes, p \in {0, 801}}
    /\ duplicationResults \in {MockDuplicationResults(n) : n \in {0, 21}}
    /\ performanceResults \in {MockPerformanceResults(e, w, i) :
                                  e \in {0, 5}, w \in {0, 8}, i \in {0, 1}}
    /\ scoreResults = Null
    /\ lighthouseScoreResults = Null
    /\ combinedResults = Null
    /\ baseline = Null
    /\ invocations = <<>>
    /\ AuditIdle

ScoreStatic ==
    /\ combinedResults = Null
    /\ Score

ReceiveAudit(score) ==
    /\ combinedResults = Null
    /\ lighthouseScoreResults = Null
    /\ lighthouseScoreResults' = [score |-> score]
    /\ UNCHANGED <<files, sizeResults, duplicationResults, performanceResults,
                   scoreResults, combinedResults, baseline>>
    /\ UNCHANGED invocations
    /\ UNCHANGED auditVars

Combine ==
    /\ combinedResults = Null
    /\ combinedResults' = calculateCombinedUrlScore(scoreResults, lighthouseScoreResults)
    /\ UNCHANGED <<files, sizeResults, duplicationResults, performanceResults,
                   scoreResults, lighthouseScoreResults, baseline>>
    /\ UNCHANGED invocations
    /\ UNCHANGED auditVars

NextCombined ==
    \/ ScoreStatic
    \/ \E score \in LighthouseScores : ReceiveAudit(score)
    \/ Combine

SpecCombined == InitCombined /\ [][NextCombined]_vars

(***************************************************************************)
(* URL mode: app.js (runAnalysis, runLighthouseAnalysis), the audit client *)
(* (fetchLighthouseAudit) and backend/server.js (POST /audit,              *)
(* runLighthouse, withTimeout).                                            *)
(*  - The text of the URL field is held as the protocol it parses to       *)
(*    ("none" when new URL() throws) and its length.                       *)
(*  - An Error is held as its message, its code ("" when it has none) and  *)
(*    its HTTP status (0 when it has none).                                *)
(***************************************************************************)
DEFAULT_TIMEOUT_MS == 120000
AUDIT_TIMEOUT_MS == 125000
\* express.json({ limit: MAX_BODY_SIZE }), '1kb' in bytes
MAX_BODY_SIZE == 1024

\* what the user may have typed into the URL field
UrlInputs ==
    {[protocol |-> "none", length |-> 0],
     [protocol |-> "none", length |-> 7],
     [protocol |-> "ftp:", length |-> 18],
     [protocol |-> "http:", length |-> 19],
     [protocol |-> "https:", length |-> 20],
     [protocol |-> "https:", length |-> 1100]}

\* the URL to audit, or Null for the empty string the code returns
getUrlToAudit(value) ==
    IF value.length = 0 THEN Null
    ELSE IF value.protocol = "none" THEN Null
    ELSE IF value.protocol # "http:" /\ value.protocol # "https:" THEN Null
    ELSE value

isValidHttpUrl(value) ==
    value.protocol # "none" /\ (value.protocol = "http:" \/ value.protocol = "https:")

buildError(message, code, status) ==
    [error |-> [message |-> message, code |-> code, status |-> status]]

IsError(outcome) == "error" \in DOMAIN outcome

\* the part of fetchLighthouseAudit that follows the parsed answer: the
\* payload returned or the error thrown
ClassifyResponse(resp) ==
    IF ~resp.ok
    THEN buildError(IF resp.payload.kind = "object" /\ resp.payload.error # ""
                    THEN resp.payload.error ELSE "Audit request failed.",
                    "http_error", resp.status)
    ELSE IF resp.payload.kind # "object"
    THEN buildError("Unexpected response from audit server.", "invalid_response", 0)
    ELSE [payload |-> resp.payload]

\* the catch block without the AbortError test
ClassifyFailureAsNetwork(name) ==
    buildError("Network error while running audit.", "network_error", 0)

\* the catch block of fetchLighthouseAudit for an error that is not its own:
\* name is the name of the error caught
ClassifyFailure(name) ==
    IF name = "AbortError"
    THEN buildError("Audit timed out. Please try again.", "timeout", 0)
    ELSE buildError("Network error while running audit.", "network_error", 0)

\* clearTimeout left out
clearTimeoutForgotten(timer) == timer

\* clearTimeout(timeoutId)
clearTimeout(timer) == IF timer = "armed" THEN "cleared" ELSE timer

getUserFriendlyError(error) ==
    IF error.code = "timeout"
    THEN "Audit timed out. Please try again with a faster page or later."
    ELSE IF error.code = "http_error"
    THEN (IF error.message # "" THEN error.message
          ELSE "Audit failed. Please verify the URL.")
    ELSE "Audit failed. Please check that the backend server is running."

\* one entry of lhr.audits
Audit(id, mode, score, numericValue, displayValue, detailsType, savingsMs, savingsBytes) ==
    [id |-> id, title |-> id, scoreDisplayMode |-> mode, score |-> score,
     numericValue |-> numericValue, displayValue |-> displayValue,
     detailsType |-> detailsType, overallSavingsMs |-> savingsMs,
     overallSavingsBytes |-> savingsBytes]

\* one entry of lhr.categories
Category(id, score) == [id |-> id, title |-> id, score |-> score]

\* a raw report: the maps that are there, and no wrapper key
Lhr(hasCategories, categories, hasAudits, audits) ==
    [lighthouse |-> Null, lhr |-> Null,
     hasCategories |-> hasCategories, categories |-> categories,
     hasAudits |-> hasAudits, audits |-> audits]

\* a report as the backend's runner resolves it, for a performance score
RunnerLhr(performance) ==
    Lhr(TRUE, <<Category("performance", performance), Category("accessibility", 88),
                Category("seo", 100), Category("best-practices", Missing)>>,
        TRUE, <<Audit("first-contentful-paint", "numeric", 70, 2400, "2.4 s", "", Missing, Missing),
                Audit("render-blocking-resources", "numeric", 40, 900, "",
                      "opportunity", 900, 20000)>>)

\* what lighthouseRunner may resolve with: a report and whether its
\* configSettings are those of the mobile profile
RunnerResults ==
    {[mobile |-> m, lhr |-> RunnerLhr(p)] : m \in BOOLEAN, p \in {42, 95}}

\* the body of an answer of the backend
JsonBody(error, lighthouse) ==
    [kind |-> "object", error |-> error, lighthouse |-> lighthouse, lhr |-> Null,
     hasCategories |-> FALSE, categories |-> <<>>, hasAudits |-> FALSE, audits |-> <<>>]

\* the answer of express's default error handler: an HTML page
HtmlBody ==
    [kind |-> "text", error |-> "", lighthouse |-> Null, lhr |-> Null,
     hasCategories |-> FALSE, categories |-> <<>>, hasAudits |-> FALSE, audits |-> <<>>]

HttpResponse(status, payload) ==
    [status |-> status, ok |-> (status >= 200 /\ status <= 299), payload |-> payload]

\* the catch block of POST /audit
AuditErrorResponse(error) ==
    HttpResponse(IF error.code = "TIMEOUT" THEN 504 ELSE 500,
                 JsonBody(IF error.code = "TIMEOUT"
                          THEN "Audit timed out. Try a faster URL or try again later."
                          ELSE IF error.message # "" THEN error.message
                          ELSE "Audit failed. Please try again.",
                          Null))

\* runLighthouse after withTimeout has settled with outcome: the report is
\* returned or an error thrown, and POST /audit answers
AuditResponse(outcome) ==
    IF IsError(outcome) THEN AuditErrorResponse(outcome.error)
    ELSE IF ~outcome.result.mobile
    THEN AuditErrorResponse([message |-> "Audit profile mismatch. Only mobile emulated Lighthouse diagnostics are allowed.",
                             code |-> "PROFILE_MISMATCH", status |-> 0])
    ELSE HttpResponse(200, JsonBody("", outcome.result.lhr))

(***************************************************************************)
(* SpecAudit: one URL analysis, from the click on the analyze button to    *)
(* the rendered report or the error card, with the backend on the other    *)
(* side of the wire.                                                       *)
(***************************************************************************)
clientVars == <<clientPc, timeoutId, aborted, request, auditOutcomes, requestsIssued,
                loading, resultsMode, errorCard, rendered, lastAuditUrl,
                currentMode, runs, resultsSection>>

serverVars == <<serverPc, serverTimeoutId, withTimeoutSettled, chrome, runner>>

\* the page as loaded, nothing analysed yet
InitAudit == InitStatic

\* runAnalysis in URL mode up to the first await of runLighthouseAnalysis
runLighthouseAnalysis(value) ==
    /\ clientPc \in {"idle", "done"}
    /\ ~loading
    /\ Len(requestsIssued) < MaxAudits
    /\ resultsMode' = "lighthouse"
    /\ IF getUrlToAudit(value) = Null
       THEN /\ errorCard' = "Please enter a valid URL starting with http or https."
            /\ clientPc' = "idle"
            /\ UNCHANGED <<loading, lastAuditUrl>>
       ELSE /\ errorCard' = ""
            /\ lastAuditUrl' = getUrlToAudit(value)
            /\ loading' = TRUE
            /\ clientPc' = "delay"
    /\ UNCHANGED <<timeoutId, aborted, request, auditOutcomes, requestsIssued, rendered,
                   response>>
    /\ UNCHANGED pageVars
    /\ UNCHANGED serverVars
    /\ UNCHANGED analysisVars

\* fetchLighthouseAudit up to the await of fetch: a new controller, the timer
\* is set and the request leaves.  The backend is held with one request at a
\* time: a further request leaves once the previous one has been answered,
\* and meets a handler that starts afresh.
fetchLighthouseAudit ==
    /\ clientPc = "delay"
    /\ serverPc \in {"idle", "responded"}
    /\ aborted' = FALSE
    /\ timeoutId' = "armed"
    /\ request' = "sent"
    /\ requestsIssued' = Append(requestsIssued, "/audit")
    /\ clientPc' = "fetch"
    /\ response' = Null
    /\ serverPc' = "idle"
    /\ serverTimeoutId' = "none"
    /\ withTimeoutSettled' = Null
    /\ chrome' = "none"
    /\ runner' = "none"
    /\ UNCHANGED <<auditOutcomes, loading, resultsMode, errorCard, rendered, lastAuditUrl>>
    /\ UNCHANGED pageVars
    /\ UNCHANGED analysisVars

\* the rest of runLighthouseAnalysis once fetchLighthouseAudit has settled
\* with outcome: adapt and render, or show the error card; loading ends
FinishRun(outcome) ==
    /\ auditOutcomes' = Append(auditOutcomes, outcome)
    /\ clientPc' = "done"
    /\ loading' = FALSE
    /\ IF IsError(outcome)
       THEN /\ errorCard' = getUserFriendlyError(outcome.error)
            /\ UNCHANGED rendered
       ELSE IF IsError(adaptLighthouseResults(outcome.payload))
       THEN /\ errorCard' =
                   getUserFriendlyError(adaptLighthouseResults(outcome.payload).error)
            /\ UNCHANGED rendered
       ELSE /\ rendered' = adaptLighthouseResults(outcome.payload)
            /\ UNCHANGED errorCard

\* the answer's head arrives: fetch resolves and the body is being read
ResponseArrives ==
    /\ clientPc = "fetch"
    /\ request = "sent"
    /\ response # Null
    /\ request' = "answered"
    /\ clientPc' = "parse"
    /\ UNCHANGED <<timeoutId, aborted, auditOutcomes, requestsIssued, loading, resultsMode,
                   errorCard, rendered, lastAuditUrl, response>>
    /\ UNCHANGED pageVars
    /\ UNCHANGED serverVars
    /\ UNCHANGED analysisVars

\* the body has been read: the answer is classified, the timer cleared
BodyParsed ==
    /\ clientPc = "parse"
    /\ timeoutId' = clearTimeout(timeoutId)
    /\ FinishRun(ClassifyResponse(response))
    /\ UNCHANGED <<aborted, request, requestsIssued, resultsMode, lastAuditUrl, response>>
    /\ UNCHANGED pageVars
    /\ UNCHANGED serverVars
    /\ UNCHANGED analysisVars

\* the transport fails while the answer or its body is awaited
TransportFails ==
    /\ clientPc \in {"fetch", "parse"}
    /\ request' = "failed"
    /\ timeoutId' = clearTimeout(timeoutId)
    /\ FinishRun(ClassifyFailure("TypeError"))
    /\ UNCHANGED <<aborted, requestsIssued, resultsMode, lastAuditUrl, response>>
    /\ UNCHANGED pageVars
    /\ UNCHANGED serverVars
    /\ UNCHANGED analysisVars

\* the client's timer fires: controller.abort(); a pending fetch or body read
\* rejects with an AbortError
ClientTimeout ==
    /\ timeoutId = "armed"
    /\ timeoutId' = "fired"
    /\ aborted' = TRUE
    /\ IF clientPc \in {"fetch", "parse"}
       THEN /\ request' = "aborted"
            /\ FinishRun(ClassifyFailure("AbortError"))
       ELSE UNCHANGED <<request, auditOutcomes, clientPc, loading, errorCard, rendered>>
    /\ UNCHANGED <<requestsIssued, resultsMode, lastAuditUrl, response>>
    /\ UNCHANGED pageVars
    /\ UNCHANGED serverVars
    /\ UNCHANGED analysisVars

\* what the promise of lighthouseRunner may settle with
RunnerOutcomes ==
    {[result |-> r] : r \in RunnerResults}
    \cup {buildError("Lighthouse failed to load the page.", "", 0)}

\* POST /audit up to the await of chromeLauncher.launch; a body over the limit
\* is answered by express before the handler runs
ServerReceive ==
    /\ serverPc = "idle"
    /\ request # "none"
    /\ IF 10 + lastAuditUrl.length > MAX_BODY_SIZE
       THEN /\ response' = HttpResponse(413, HtmlBody)
            /\ serverPc' = "responded"
       ELSE IF ~isValidHttpUrl(lastAuditUrl)
       THEN /\ response' = HttpResponse(400, JsonBody("Invalid URL. Use http or https.", Null))
            /\ serverPc' = "responded"
       ELSE /\ serverPc' = "launching"
            /\ UNCHANGED response
    /\ UNCHANGED <<serverTimeoutId, withTimeoutSettled, chrome, runner>>
    /\ UNCHANGED clientVars
    /\ UNCHANGED analysisVars

\* chromeLauncher.launch settles; on success the runner is started under
\* withTimeout, on failure runLighthouse throws with no browser to kill
ChromeLaunch(launched) ==
    /\ serverPc = "launching"
    /\ IF launched
       THEN /\ chrome' = "running"
            /\ runner' = "pending"
            /\ serverTimeoutId' = "armed"
            /\ serverPc' = "running"
            /\ UNCHANGED response
       ELSE /\ response' = AuditErrorResponse([message |-> "Chrome failed to launch.",
                                               code |-> "ERR_LAUNCHER", status |-> 0])
            /\ serverPc' = "responded"
            /\ UNCHANGED <<chrome, runner, serverTimeoutId>>
    /\ UNCHANGED withTimeoutSettled
    /\ UNCHANGED clientVars
    /\ UNCHANGED analysisVars

\* the finally block with chrome.kill() outside a try: its failure is thrown
AfterKillUnguarded(outcome, killed) ==
    IF killed THEN outcome ELSE buildError("Chrome could not be killed", "", 0)

\* the finally block of runLighthouse: chrome.kill() is awaited and an error
\* it throws is dropped, so runLighthouse settles as it was about to
AfterKill(outcome, killed) == outcome

\* the promise of withTimeout settles with outcome, if it has not yet; then
\* runLighthouse goes on: profile check, chrome.kill() in finally, which
\* succeeds or fails, answer
SettleWithTimeout(outcome, killed) ==
    IF withTimeoutSettled = Null
    THEN /\ withTimeoutSettled' = outcome
         /\ chrome' = IF killed THEN "killed" ELSE "kill failed"
         /\ response' = AuditResponse(AfterKill(outcome, killed))
         /\ serverPc' = "responded"
    ELSE UNCHANGED <<withTimeoutSettled, chrome, response, serverPc>>

\* the runner's promise settles: clearTimeout, then resolve or reject
RunnerSettles(outcome, killed) ==
    /\ runner = "pending"
    /\ runner' = "settled"
    /\ serverTimeoutId' = clearTimeout(serverTimeoutId)
    /\ SettleWithTimeout(outcome, killed)
    /\ UNCHANGED clientVars
    /\ UNCHANGED analysisVars

\* the timer of withTimeout fires: reject with code TIMEOUT.  The client's
\* timer was set earlier and is the shorter one, so it is no longer pending.
ServerTimeout(killed) ==
    /\ serverTimeoutId = "armed"
    /\ DEFAULT_TIMEOUT_MS < AUDIT_TIMEOUT_MS => timeoutId \in {"fired", "cleared"}
    /\ serverTimeoutId' = "fired"
    /\ SettleWithTimeout(buildError("Audit timed out", "TIMEOUT", 0), killed)
    /\ UNCHANGED runner
    /\ UNCHANGED clientVars
    /\ UNCHANGED analysisVars

NextAudit ==
    \/ \E value \in UrlInputs : runLighthouseAnalysis(value)
    \/ fetchLighthouseAudit
    \/ ResponseArrives
    \/ BodyParsed
    \/ TransportFails
    \/ ClientTimeout
    \/ ServerReceive
    \/ \E launched \in BOOLEAN : ChromeLaunch(launched)
    \/ \E outcome \in RunnerOutcomes, killed \in BOOLEAN : RunnerSettles(outcome, killed)
    \/ \E killed \in BOOLEAN : ServerTimeout(killed)

SpecAudit == InitAudit /\ [][NextAudit]_vars

(***************************************************************************)
(* Inputs: raw reports, as the callers of adaptLighthouseResults pass them  *)
(***************************************************************************)
\* the kinds of audit a report may carry: display mode, score, type of the
\* details and estimated time saving, around the limits the adapter tests
AuditKinds ==
    <<[mode |-> "numeric", score |-> 49, detailsType |-> "opportunity", savingsMs |-> 1201],
      [mode |-> "numeric", score |-> 50, detailsType |-> "opportunity", savingsMs |-> 1200],
      [mode |-> "numeric", score |-> 89, detailsType |-> "opportunity", savingsMs |-> 301],
      [mode |-> "numeric", score |-> 0, detailsType |-> "opportunity", savingsMs |-> 300],
      [mode |-> "numeric", score |-> 90, detailsType |-> "opportunity", savingsMs |-> Missing],
      [mode |-> "binary", score |-> 10, detailsType |-> "table", savingsMs |-> 5000],
      [mode |-> "numeric", score |-> Missing, detailsType |-> "", savingsMs |-> Missing]>>

\* the audit of a kind under the i-th key of the map
KindAudit(i, kind) ==
    Audit("audit-" \o ToString(i), kind.mode, kind.score, Missing, "",
          kind.detailsType, kind.savingsMs, Missing)

\* every list of at most MaxShortList audits
ShortLists ==
    UNION {{[i \in 1..n |-> KindAudit(i, AuditKinds[pick[i]])] :
               pick \in [1..n -> 1..Len(AuditKinds)]} : n \in 0..MaxShortList}

\* lists of up to MaxAuditEntries audits whose kinds go round AuditKinds from
\* start in steps of step
PatternLists ==
    {[i \in 1..n |-> KindAudit(i, AuditKinds[((start + i * step) % Len(AuditKinds)) + 1])] :
        n \in 0..MaxAuditEntries, start \in 0..(Len(AuditKinds) - 1),
        step \in 0..(Len(AuditKinds) - 1)}

\* the metric audits of a report, the fallback of the interaction metric last
MetricAudits ==
    <<Audit("first-contentful-paint", "numeric", 95, 1200, "1.2 s", "", Missing, Missing),
      Audit("largest-contentful-paint", "numeric", 60, 3100, "3.1 s", "", Missing, Missing),
      Audit("total-blocking-time", "numeric", 30, 750, "", "", Missing, Missing),
      Audit("cumulative-layout-shift", "numeric", 92, 5, "0.05", "", Missing, Missing),
      Audit("speed-index", "numeric", 85, 3500, "3.5 s", "", Missing, Missing),
      Audit("interactive", "numeric", Missing, Missing, "", "", Missing, Missing),
      Audit("interaction-to-next-paint", "numeric", 88, 250, "250 ms", "", Missing, Missing),
      Audit("first-input-delay", "numeric", 99, 16, "16 ms", "", Missing, Missing)>>

\* the metric audits of a report that has those of ids only
MetricLists ==
    {SelectSeq(MetricAudits, LAMBDA a : a.id \in ids) :
        ids \in SUBSET {MetricAudits[i].id : i \in 1..Len(MetricAudits)}}

\* the report under the key the caller wraps it in: { lighthouse: lhr },
\* { lhr: lhr }, or the report itself
Wrap(key, lhr) ==
    IF key = "lighthouse" THEN JsonBody("", lhr)
    ELSE IF key = "lhr" THEN [JsonBody("", Null) EXCEPT !.lhr = lhr]
    ELSE lhr

\* what adaptLighthouseResults may be called with: nothing, or a report with
\* or without its maps, wrapped or not
RawReports ==
    {Null} \cup
    {Wrap(key, Lhr(hasCategories,
                   IF hasCategories THEN RunnerLhr(85).categories ELSE <<>>,
                   hasAudits, IF hasAudits THEN audits ELSE <<>>)) :
        key \in {"lighthouse", "lhr", "none"},
        hasCategories \in BOOLEAN, hasAudits \in BOOLEAN,
        audits \in ShortLists \cup PatternLists \cup MetricLists}

(***************************************************************************)
(* SpecAdapter: adaptLighthouseResults applied to a raw report.  The       *)
(* report is the payload of an answer; rendered holds what the adapter     *)
(* returned, or the error it threw.                                        *)
(***************************************************************************)
InitAdapter ==
    /\ files = <<>>
    /\ sizeResults = Null
    /\ duplicationResults = Null
    /\ performanceResults = Null
    /\ scoreResults = Null
    /\ lighthouseScoreResults = Null
    /\ combinedResults = Null
    /\ baseline = Null
    /\ invocations = <<>>
    /\ clientPc = "parse"
    /\ timeoutId = "none"
    /\ aborted = FALSE
    /\ request = "answered"
    /\ response \in {HttpResponse(200, rawData) : rawData \in RawReports}
    /\ auditOutcomes = <<>>
    /\ requestsIssued = <<>>
    /\ serverPc = "responded"
    /\ serverTimeoutId = "none"
    /\ withTimeoutSettled = Null
    /\ chrome = "none"
    /\ loading = TRUE
    /\ resultsMode = "lighthouse"
    /\ errorCard = ""
    /\ rendered = Null
    /\ lastAuditUrl = Null
    /\ runner = "none"
    /\ currentMode = "paste"
    /\ runs = <<>>
    /\ resultsSection = [hidden |-> TRUE, busy |-> FALSE, shownBy |-> 0]

Adapt ==
    /\ rendered = Null
    /\ rendered' = adaptLighthouseResults(response.payload)
    /\ UNCHANGED <<clientPc, timeoutId, aborted, request, response, auditOutcomes,
                   requestsIssued, serverPc, serverTimeoutId, withTimeoutSettled, chrome,
                   loading, resultsMode, errorCard, lastAuditUrl, runner>>
    /\ UNCHANGED pageVars
    /\ UNCHANGED analysisVars

NextAdapter == Adapt

SpecAdapter == InitAdapter /\ [][NextAdapter]_vars

(***************************************************************************)
(* SpecRepeat: the analyzer and scorer functions are called again and      *)
(* again, on the same and on other arguments, and every call is recorded.  *)
(* Each function collects its findings in arrays it creates itself         *)
(* (`var results = { duplicates: [], ... }` inside the function body); a    *)
(* recorded call holds the value returned and what these arrays held when  *)
(* the call returned.                                                      *)
(***************************************************************************)
\* the file sets the functions are called with
RepeatFileSets ==
    {<<>>} \cup
    {<<createMockFile(1, sample)>> :
        sample \in {s \in SampleFiles : \/ s.type = "css" /\ s.size = 34
                                        \/ s.type = "js" /\ s.size = 116
                                        \/ s.type = "html" /\ s.size = 341}}

\* the three reports of a file set, as app.js hands them to calculateScore
ReportsOf(fs) ==
    [size |-> analyzeSizes(fs), dup |-> detectDuplication(fs), perf |-> analyzePerformance(fs)]

\* the pairs of score results calculateCombinedUrlScore is called with
RepeatScorePairs ==
    {[static |-> s, lighthouse |-> l] :
        s \in {Null, calculateScore(MockSizeResults(500 * 1024 + 1, 801),
                                    MockDuplicationResults(6),
                                    MockPerformanceResults(1, 1, 1))},
        l \in {Null, [score |-> 85]}}

\* the raw data adaptLighthouseResults is called with
RepeatRawReports == {Null, RunnerLhr(42), JsonBody("", RunnerLhr(95))}

\* the array kept outside the function and shared by all its calls
NewArrayShared(previous) == previous

\* the array a call collects its findings in, given the array the previous
\* call of the function ended with: a new, empty one
NewArray(previous) == <<>>

\* the entries a call has pushed onto its arrays when it returns result
Pushed(fn, result) ==
    IF fn = "analyzeSizes" THEN result.issues
    ELSE IF fn = "detectDuplication" THEN result.duplicates
    ELSE IF fn = "analyzePerformance" THEN result.issues \o result.recommendations
    ELSE IF fn \in {"calculateScore", "calculateCombinedUrlScore"}
    THEN result.details.deductions
    ELSE IF IsError(result) THEN <<>>
    ELSE result.performanceResults.issues \o result.performanceResults.recommendations

\* what the arrays of the previous call of fn held, nothing before the first
LastPushed(fn) ==
    LET calls == SelectSeq(invocations, LAMBDA c : c.fn = fn)
    IN  IF calls = <<>> THEN <<>> ELSE calls[Len(calls)].pushed

\* one call of fn on args that returns result
Invoke(fn, args, result) ==
    /\ Len(invocations) < MaxInvocations
    /\ invocations' = Append(invocations,
                             [fn |-> fn, args |-> args, value |-> result,
                              pushed |-> NewArray(LastPushed(fn)) \o Pushed(fn, result)])
    /\ UNCHANGED <<files, sizeResults, duplicationResults, performanceResults,
                   scoreResults, lighthouseScoreResults, combinedResults, baseline>>
    /\ UNCHANGED auditVars

InitRepeat == InitStatic

CallAnalyzeSizes(fs) == Invoke("analyzeSizes", fs, analyzeSizes(fs))

CallDetectDuplication(fs) == Invoke("detectDuplication", fs, detectDuplication(fs))

CallAnalyzePerformance(fs) == Invoke("analyzePerformance", fs, analyzePerformance(fs))

CallCalculateScore(reports) ==
    Invoke("calculateScore", reports,
           calculateScore(reports.size, reports.dup, reports.perf))

CallCalculateCombinedUrlScore(pair) ==
    Invoke("calculateCombinedUrlScore", pair,
           calculateCombinedUrlScore(pair.static, pair.lighthouse))

CallAdaptLighthouseResults(rawData) ==
    Invoke("adaptLighthouseResults", rawData, adaptLighthouseResults(rawData))

NextRepeat ==
    \/ \E fs \in RepeatFileSets : CallAnalyzeSizes(fs)
    \/ \E fs \in RepeatFileSets : CallDetectDuplication(fs)
    \/ \E fs \in RepeatFileSets : CallAnalyzePerformance(fs)
    \/ \E fs \in RepeatFileSets : CallCalculateScore(ReportsOf(fs))
    \/ \E pair \in RepeatScorePairs : CallCalculateCombinedUrlScore(pair)
    \/ \E rawData \in RepeatRawReports : CallAdaptLighthouseResults(rawData)

SpecRepeat == InitRepeat /\ [][NextRepeat]_vars

(***************************************************************************)
(* formatBytes of modules/sizeAnalyzer.js and app.js.  The text returned   *)
(* is held as the number before the unit, in hundredths, and the unit      *)
(* label; a label read past the end of the sizes array is "undefined".     *)
(* Byte counts stay below 2^31.                                            *)
(***************************************************************************)
\* const sizes = ['Bytes', 'KB', 'MB']
sizes == <<"Bytes", "KB", "MB">>

\* Math.pow(k, i) with k = 1024
Pow1024(i) == IF i = 0 THEN 1 ELSE IF i = 1 THEN 1024 ELSE IF i = 2 THEN 1048576
              ELSE 1073741824

\* Math.floor(Math.log(bytes) / Math.log(k)) for 1 <= bytes < 2^31; the
\* quotient of the two logarithms is exact at 1024, 1024^2 and 1024^3
LogFloor1024(bytes) ==
    IF bytes < 1024 THEN 0 ELSE IF bytes < 1048576 THEN 1
    ELSE IF bytes < 1073741824 THEN 2 ELSE 3

\* (bytes / unit).toFixed(2) in hundredths: the nearest hundredth, a tie going
\* up; the remainder is scaled in two steps where unit is 1024^3
ToFixed2(bytes, unit) ==
    LET whole == bytes \div unit
        rest == bytes % unit
        part == IF unit <= 1048576 THEN (2 * 100 * rest + unit) \div (2 * unit)
                ELSE LET low == unit \div 1024
                     IN  ((rest \div low) * 100 + 512 + ((rest % low) * 100) \div low)
                         \div 1024
    IN  whole * 100 + part

formatBytes(bytes) ==
    IF bytes = 0 THEN [value |-> 0, unit |-> "Bytes"]
    ELSE LET i == LogFloor1024(bytes)
         IN  [value |-> ToFixed2(bytes, Pow1024(i)),
              unit |-> IF i + 1 \in DOMAIN sizes THEN sizes[i + 1] ELSE "undefined"]

\* the byte counts formatBytes is called with
ByteCounts ==
    {0, 512, 1536, 1555, 2560, 2097152, 1610612736, 2147483647}
    \cup {m * Pow1024(e) + d :
             m \in {1, 2, 3, 5, 7, 10, 50, 100, 250, 500, 1000, 1023},
             e \in 0..2, d \in {-1, 0, 1}}
    \cup {Pow1024(3) + d : d \in {-1, 0, 1}}

(***************************************************************************)
(* SpecFormat: formatBytes is called once on a byte count.                 *)
(***************************************************************************)
InitFormat == InitStatic

CallFormatBytes(bytes) ==
    /\ invocations = <<>>
    /\ invocations' = <<[fn |-> "formatBytes", args |-> bytes,
                         value |-> formatBytes(bytes), pushed |-> <<>>]>>
    /\ UNCHANGED <<files, sizeResults, duplicationResults, performanceResults,
                   scoreResults, lighthouseScoreResults, combinedResults, baseline>>
    /\ UNCHANGED auditVars

NextFormat == \E bytes \in ByteCounts : CallFormatBytes(bytes)

SpecFormat == InitFormat /\ [][NextFormat]_vars

(***************************************************************************)
(* SpecPage: the page of app.js with its three ways of starting an         *)
(* analysis (the analyze button, the Enter key in the URL field, the       *)
(* retry button of the error card) and its mode buttons.  An analysis that *)
(* has entered the loading state stays pending over its awaits (the 300 ms *)
(* timer, and in URL mode the audit call) and then finishes in one step.   *)
(* The audit call is held as what it settles with.                         *)
(***************************************************************************)
MaxRuns == 2         \* analyses that enter the loading state in one behaviour

Modes == {"paste", "upload", "url"}

\* the code the user may have pasted or uploaded: none, or one small script
PageFileSets == {<<>>, <<Sample("js", 701, EmptyContent)>>}

\* what fetchLighthouseAudit may settle with
AuditSettlements ==
    {ClassifyFailure("AbortError"), ClassifyFailure("TypeError")}
    \cup {ClassifyResponse(AuditResponse(outcome)) : outcome \in RunnerOutcomes}

Pending == {i \in 1..Len(runs) : runs[i].state = "pending"}

InitPage == InitStatic

\* setLoadingState(isLoading) on the results section
SetBusy(isLoading) == [resultsSection EXCEPT !.busy = isLoading]

\* the click on a mode button
switchMode(mode) ==
    /\ currentMode' = mode
    /\ resultsSection' = [hidden |-> TRUE, busy |-> FALSE, shownBy |-> resultsSection.shownBy]
    /\ errorCard' = ""
    /\ runs' = [i \in 1..Len(runs) |->
                    IF runs[i].state = "pending" THEN [runs[i] EXCEPT !.switched = TRUE]
                    ELSE runs[i]]
    /\ UNCHANGED <<loading, resultsMode, rendered, lastAuditUrl>>
    /\ UNCHANGED <<clientPc, timeoutId, aborted, request, response, auditOutcomes,
                   requestsIssued>>
    /\ UNCHANGED serverVars
    /\ UNCHANGED analysisVars

\* the events that call runAnalysis: the click on the analyze button, which a
\* disabled button does not deliver; the Enter key in the URL field, shown in
\* URL mode; the click on the retry button, which exists while the error card
\* has a message
CanTrigger(trigger) ==
    \/ trigger = "button" /\ ~loading
    \/ trigger = "enter" /\ currentMode = "url"
    \/ trigger = "retry" /\ errorCard # ""

NewRun(trigger, kind, input) ==
    [trigger |-> trigger, kind |-> kind, input |-> input, state |-> "pending",
     switched |-> FALSE]

\* runAnalysis up to the first await of runLighthouseAnalysis or
\* runStaticAnalysis: value is the content of the URL field, fs the code given.
\* The retry button first puts lastAuditUrl, if any, into the URL field.
runAnalysis(trigger, value, fs) ==
    /\ CanTrigger(trigger)
    /\ Len(runs) < MaxRuns
    /\ IF currentMode = "url"
       THEN LET typed == IF trigger = "retry" /\ lastAuditUrl # Null
                         THEN lastAuditUrl ELSE value
                url == getUrlToAudit(typed)
            IN  /\ resultsMode' = "lighthouse"
                /\ IF url = Null
                   THEN /\ errorCard' = "Please enter a valid URL starting with http or https."
                        /\ resultsSection' = [resultsSection EXCEPT !.hidden = FALSE,
                                                                    !.shownBy = 0]
                        /\ UNCHANGED <<loading, lastAuditUrl, runs>>
                   ELSE /\ errorCard' = ""
                        /\ lastAuditUrl' = url
                        /\ loading' = TRUE
                        /\ resultsSection' = SetBusy(TRUE)
                        /\ runs' = Append(runs, NewRun(trigger, "lighthouse", url))
       ELSE /\ errorCard' = ""
            /\ IF fs = <<>>
               THEN UNCHANGED <<resultsMode, loading, resultsSection, runs>>
               ELSE /\ resultsMode' = "static"
                    /\ loading' = TRUE
                    /\ resultsSection' = SetBusy(TRUE)
                    /\ runs' = Append(runs, NewRun(trigger, "static", fs))
            /\ UNCHANGED lastAuditUrl
    /\ UNCHANGED <<currentMode, rendered>>
    /\ UNCHANGED <<clientPc, timeoutId, aborted, request, response, auditOutcomes,
                   requestsIssued>>
    /\ UNCHANGED serverVars
    /\ UNCHANGED analysisVars

\* the timers of two runs fire in the order the runs were started, and a
\* static run finishes when its timer fires: run i cannot finish while a
\* static run started before it is pending
TimerFired(i) ==
    \A j \in 1..(i - 1) : ~(runs[j].kind = "static" /\ runs[j].state = "pending")

\* showResultsSection() and setLoadingState(false) at the end of run i
ShowAndStopLoading(i) ==
    /\ resultsSection' = [hidden |-> FALSE, busy |-> FALSE, shownBy |-> i]
    /\ loading' = FALSE
    /\ runs' = [runs EXCEPT ![i].state = "finished"]

\* the rest of runStaticAnalysis after its await: analyse, render, show
FinishStaticRun(i) ==
    /\ i \in Pending
    /\ runs[i].kind = "static"
    /\ TimerFired(i)
    /\ LET fs == runs[i].input
           sizeRes == analyzeSizes(fs)
           dupRes == detectDuplication(fs)
           perfRes == analyzePerformance(fs)
       IN  rendered' = [sizeResults |-> sizeRes, duplicationResults |-> dupRes,
                        performanceResults |-> perfRes,
                        scoreResults |-> calculateScore(sizeRes, dupRes, perfRes)]
    /\ ShowAndStopLoading(i)
    /\ UNCHANGED <<currentMode, resultsMode, errorCard, lastAuditUrl>>
    /\ UNCHANGED <<clientPc, timeoutId, aborted, request, response, auditOutcomes,
                   requestsIssued>>
    /\ UNCHANGED serverVars
    /\ UNCHANGED analysisVars

\* the rest of runLighthouseAnalysis once fetchLighthouseAudit has settled
\* with outcome: adapt and render, or the error card; show
FinishLighthouseRun(i, outcome) ==
    /\ i \in Pending
    /\ runs[i].kind = "lighthouse"
    /\ TimerFired(i)
    /\ IF IsError(outcome)
       THEN /\ errorCard' = getUserFriendlyError(outcome.error)
            /\ UNCHANGED rendered
       ELSE IF IsError(adaptLighthouseResults(outcome.payload))
       THEN /\ errorCard' =
                   getUserFriendlyError(adaptLighthouseResults(outcome.payload).error)
            /\ UNCHANGED rendered
       ELSE /\ rendered' = adaptLighthouseResults(outcome.payload)
            /\ UNCHANGED errorCard
    /\ ShowAndStopLoading(i)
    /\ UNCHANGED <<currentMode, resultsMode, lastAuditUrl>>
    /\ UNCHANGED <<clientPc, timeoutId, aborted, request, response, auditOutcomes,
                   requestsIssued>>
    /\ UNCHANGED serverVars
    /\ UNCHANGED analysisVars

NextPage ==
    \/ \E mode \in Modes : switchMode(mode)
    \/ \E trigger \in {"button", "enter", "retry"}, value \in UrlInputs, fs \in PageFileSets :
           runAnalysis(trigger, value, fs)
    \/ \E i \in 1..MaxRuns : FinishStaticRun(i)
    \/ \E i \in 1..MaxRuns, outcome \in AuditSettlements : FinishLighthouseRun(i, outcome)

SpecPage == InitPage /\ [][NextPage]_vars

(***************************************************************************)
(* Properties                                                              *)
(***************************************************************************)
Details == scoreResults.details
ErrorCount == Len(BySeverity(performanceResults.issues, "error"))
WarningCount == Len(BySeverity(performanceResults.issues, "warning"))
InfoCount == Len(BySeverity(performanceResults.issues, "info"))
DuplicateCount == Len(duplicationResults.duplicates)

\* C1: the score calculateScore returns is max(0, sizeScore + duplicationScore +
\* performanceScore - 200), an integer between 0 and 100 inclusive.
C1_ScoreIsClampedSum ==
    scoreResults # Null =>
        LET sum == Details.sizeScore + Details.duplicationScore
                   + Details.performanceScore - 200
        IN  /\ scoreResults.score = (IF sum > 0 THEN sum ELSE 0)
            /\ scoreResults.score \in 0..100

\* the three components sum to less than 200 and the score is 0
C1_Witness ==
    /\ scoreResults # Null
    /\ Details.sizeScore + Details.duplicationScore + Details.performanceScore < 200
    /\ scoreResults.score = 0

NoIssuesAnywhere ==
    /\ scoreResults # Null
    /\ sizeResults.issues = <<>>
    /\ duplicationResults.duplicates = <<>>
    /\ performanceResults.issues = <<>>

C3_Monotonic ==
    baseline # Null =>
        /\ scoreResults.score <= baseline.score
        /\ Details.sizeScore <= baseline.details.sizeScore
        /\ Details.duplicationScore <= baseline.details.duplicationScore
        /\ Details.performanceScore <= baseline.details.performanceScore

\* a worse input has been scored and its score is strictly lower
C3_Witness ==
    /\ baseline # Null
    /\ scoreResults.score < baseline.score

GradeOf(score) ==
    CASE score >= 90 -> <<"A", "good">>
      [] score \in 75..89 -> <<"B", "good">>
      [] score \in 60..74 -> <<"C", "warning">>
      [] score \in 40..59 -> <<"D", "warning">>
      [] OTHER -> <<"F", "danger">>

\* C4: grade and category follow the score with inclusive lower bounds (90 A/good,
\* 75 B/good, 60 C/warning, 40 D/warning, below 40 F/danger), for the static
\* score and for the combined URL score alike.
C4_GradeBands ==
    /\ scoreResults # Null =>
          <<scoreResults.grade, scoreResults.category>> = GradeOf(scoreResults.score)
    /\ combinedResults # Null =>
          <<combinedResults.grade, combinedResults.category>> = GradeOf(combinedResults.score)

\* a static score of 74 graded C combined into a score of 75 graded B
C4_Witness ==
    /\ scoreResults # Null
    /\ combinedResults # Null
    /\ scoreResults.score = 74 /\ scoreResults.grade = "C"
    /\ combinedResults.score = 75 /\ combinedResults.grade = "B"

\* C5: the performance component is 100 - min(5E, 25) - min(2W, 15) - min(I, 5)
\* for E errors, W warnings and I infos; it is never below 55.
C5_PerformanceCaps ==
    scoreResults # Null =>
        LET cap(x, c) == IF x < c THEN x ELSE c
        IN  /\ Details.performanceScore =
                 100 - cap(5 * ErrorCount, 25) - cap(2 * WarningCount, 15)
                     - cap(InfoCount, 5)
            /\ Details.performanceScore >= 55

\* 20 errors and nothing else: the component is 75
C5_Witness ==
    /\ scoreResults # Null
    /\ ErrorCount = 20 /\ WarningCount = 0 /\ InfoCount = 0
    /\ Details.performanceScore = 75

\* C6: the size deduction is one byte tier (30 above 1 048 576, else 20 above
\* 512 000, else 10 above 256 000, else none) plus one JavaScript-share tier
\* (10 above 80 percent, else 5 above 70 percent, else none).
C6_SizeTiers ==
    scoreResults # Null =>
        LET t == sizeResults.totalSize
            p == sizeResults.percentages.js
            byteTier == IF t > 1048576 THEN 30 ELSE IF t > 512000 THEN 20
                        ELSE IF t > 256000 THEN 10 ELSE 0
            jsTier == IF p > 800 THEN 10 ELSE IF p > 700 THEN 5 ELSE 0
        IN  100 - Details.sizeScore = byteTier + jsTier

\* both tiers apply at once: 20 for the bytes and 5 for the JavaScript share
C6_Witness ==
    /\ scoreResults # Null
    /\ sizeResults.totalSize = 512001
    /\ sizeResults.percentages.js = 701
    /\ Details.sizeScore = 75

\* C7: the duplication deduction depends on the number N of findings only:
\* 25 if N > 20, else 15 if N > 10, else 10 if N > 5, else 5 if N > 0, else 0.
C7_DuplicationTiers ==
    scoreResults # Null =>
        LET n == DuplicateCount
        IN  100 - Details.duplicationScore =
                (IF n > 20 THEN 25 ELSE IF n > 10 THEN 15
                 ELSE IF n > 5 THEN 10 ELSE IF n > 0 THEN 5 ELSE 0)

\* exactly 10 findings: the tier of 10 points, not the tier of 15
C7_Witness ==
    /\ scoreResults # Null
    /\ DuplicateCount = 10
    /\ Details.duplicationScore = 90

HasIssue(list, severity, title) ==
    \E i \in 1..Len(list) : list[i].severity = severity /\ list[i].title = title

SingleJsFile300KB ==
    /\ scoreResults # Null
    /\ Len(files) = 1
    /\ files[1].type = "js"
    /\ files[1].size \in {300000, 300 * 1024}

\* C8 as stated: for a single JavaScript file of 300 KB, analyzeSizes reports the
\* 'Large JavaScript Bundle' error and the size component is at most 70.
C8_Original ==
    SingleJsFile300KB =>
        /\ HasIssue(sizeResults.issues, "error", "Large JavaScript Bundle")
        /\ Details.sizeScore <= 70

\* C8 amended: for a single JavaScript file of 300 KB, analyzeSizes reports the
\* 'Large JavaScript Bundle' error and the size component is at most 80 (it is
\* exactly 80).
C8_SizeComponent80 ==
    SingleJsFile300KB =>
        /\ HasIssue(sizeResults.issues, "error", "Large JavaScript Bundle")
        /\ Details.sizeScore = 80

C8_Witness ==
    /\ SingleJsFile300KB
    /\ files[1].size = 300 * 1024
    /\ sizeResults.percentages.js = 1000

SeverityRank(severity) ==
    CASE severity = "error" -> 0 [] severity = "warning" -> 1 [] OTHER -> 2

SortedBySeverity(list) ==
    \A i, j \in 1..Len(list) :
        i < j => SeverityRank(list[i].severity) <= SeverityRank(list[j].severity)

\* C9: the finding list of detectDuplication and the issue list of
\* analyzePerformance are ordered by severity rank: every error before every
\* warning before every info.
C9_SortedBySeverity ==
    scoreResults # Null =>
        /\ SortedBySeverity(duplicationResults.duplicates)
        /\ SortedBySeverity(performanceResults.issues)

RECURSIVE Bytes(_, _)
Bytes(fs, types) ==
    IF fs = <<>> THEN 0
    ELSE (IF Head(fs).type \in types THEN Head(fs).size ELSE 0) + Bytes(Tail(fs), types)

IssueCount(list, title) == Len(SelectSeq(list, LAMBDA i : i.title = title))

C12_CombinedScore ==
    combinedResults # Null =>
        LET src == combinedResults.sourceScores
            score == combinedResults.score
        IN  /\ score \in 0..100
            /\ (scoreResults # Null /\ lighthouseScoreResults # Null) =>
                  /\ src.staticWeight = 1 /\ src.lighthouseWeight = 1
                  /\ 2 * score - (scoreResults.score + lighthouseScoreResults.score)
                         \in {0, 1}
            /\ (scoreResults # Null /\ lighthouseScoreResults = Null) =>
                  /\ src.staticWeight = 2 /\ src.lighthouseWeight = 0
                  /\ score = scoreResults.score
            /\ (scoreResults = Null /\ lighthouseScoreResults # Null) =>
                  /\ src.staticWeight = 0 /\ src.lighthouseWeight = 2
                  /\ score = lighthouseScoreResults.score
            /\ (scoreResults = Null /\ lighthouseScoreResults = Null) =>
                  /\ src.staticWeight = 0 /\ src.lighthouseWeight = 0
                  /\ score = 0

\* both scores present and their mean is a half-integer, so the rounding acts
C12_Witness ==
    /\ combinedResults # Null
    /\ scoreResults # Null
    /\ lighthouseScoreResults # Null
    /\ scoreResults.score = 90
    /\ lighthouseScoreResults.score = 85
    /\ combinedResults.score = 88

\* C13: when both the static score and the Lighthouse score are present, the
\* combined report's performance component is the static performance
\* component plus (combined score - static score), clamped to 0..100; if the
\* Lighthouse score is below 90 exactly one advisory deduction entry of
\* max(1, round((100 - lighthouseScore) * 0.1)) points is appended to the
\* static deductions (none otherwise), and the combined score does not
\* subtract it.
C13_PerformanceNudge ==
    (combinedResults # Null /\ scoreResults # Null /\ lighthouseScoreResults # Null) =>
        LET s == scoreResults.score
            l == lighthouseScoreResults.score
            nudged == scoreResults.details.performanceScore
                      + (combinedResults.score - s)
            before == scoreResults.details.deductions
            after == combinedResults.details.deductions
        IN  /\ combinedResults.details.performanceScore
                   = (IF nudged < 0 THEN 0 ELSE IF nudged > 100 THEN 100 ELSE nudged)
            /\ SubSeq(after, 1, Len(before)) = before
            /\ l >= 90 => after = before
            /\ l < 90 =>
                  /\ Len(after) = Len(before) + 1
                  /\ after[Len(after)].reason = "Lighthouse performance score impact"
                  /\ after[Len(after)].points >= 1
                  /\ (100 - l) - 10 * after[Len(after)].points \in -5..4
            /\ 2 * combinedResults.score - (s + l) \in {0, 1}
            /\ combinedResults.details.sizeScore = scoreResults.details.sizeScore
            /\ combinedResults.details.duplicationScore
                   = scoreResults.details.duplicationScore

\* a Lighthouse score of 85: the performance component moves with the score
\* and an advisory entry of 2 points is appended
C13_Witness ==
    /\ combinedResults # Null
    /\ scoreResults # Null
    /\ lighthouseScoreResults # Null
    /\ lighthouseScoreResults.score = 85
    /\ combinedResults.details.performanceScore
           # scoreResults.details.performanceScore
    /\ Len(combinedResults.details.deductions)
           = Len(scoreResults.details.deductions) + 1
    /\ combinedResults.details.deductions[Len(combinedResults.details.deductions)].points = 2

\* C14: in a URL analysis the page-resource fetch and the audit run as two
\* concurrent requests that are joined before scoring (so once the audit
\* request is under way the resource request has been issued too); if the
\* audit fails, the whole run fails and a user-facing error is shown.
C14_ConcurrentRequests ==
    /\ clientPc \in {"fetch", "parse", "done"} =>
          /\ \E i \in 1..Len(requestsIssued) : requestsIssued[i] = "/audit"
          /\ \E i \in 1..Len(requestsIssued) : requestsIssued[i] = "/fetch-resources"
    /\ (clientPc = "done" /\ IsError(auditOutcomes[Len(auditOutcomes)])) =>
          errorCard # ""

LastOutcome == auditOutcomes[Len(auditOutcomes)]

TimedOut(outcome) == IsError(outcome) /\ outcome.error.code = "timeout"

\* C15: one timer bounds the audit call.  In the client: when the timer fires
\* on an unfinished call, the request is aborted and the call fails with the
\* timeout error; when the call ends first, the timer is cleared; either way
\* every request issued gets exactly one outcome and none is issued again.
\* In the backend's withTimeout: when the timer fires first, the promise
\* rejects with TIMEOUT, the browser's kill is called and a later settlement
\* of the runner changes nothing; when the runner settles first, its own outcome is
\* passed on and the timer is cleared.
C15_SingleTimeout ==
    /\ Len(requestsIssued)
           = Len(auditOutcomes) + (IF clientPc \in {"fetch", "parse"} THEN 1 ELSE 0)
    /\ timeoutId = "armed" => clientPc \in {"fetch", "parse"}
    /\ clientPc = "done" =>
          /\ timeoutId \in {"fired", "cleared"}
          /\ timeoutId = "fired" <=> TimedOut(LastOutcome)
          /\ timeoutId = "fired" => (aborted /\ request = "aborted")
    /\ serverTimeoutId = "armed" => (withTimeoutSettled = Null /\ runner = "pending")
    /\ serverTimeoutId = "fired" =>
          /\ withTimeoutSettled = buildError("Audit timed out", "TIMEOUT", 0)
          /\ chrome \in {"killed", "kill failed"}
          /\ response.status = 504
    /\ (withTimeoutSettled # Null /\ serverTimeoutId # "fired") =>
          /\ serverTimeoutId = "cleared"
          /\ runner = "settled"
          /\ withTimeoutSettled \in RunnerOutcomes

\* a first audit completed with its report and its timer cleared; the second
\* one timed out in the client, then in the backend, and the runner settled
\* only afterwards
C15_Witness ==
    /\ Len(auditOutcomes) = 2
    /\ ~IsError(auditOutcomes[1])
    /\ TimedOut(auditOutcomes[2])
    /\ timeoutId = "fired"
    /\ serverTimeoutId = "fired"
    /\ runner = "settled"

\* the codes of the errors the audit call has failed with so far
FailureCodes ==
    {auditOutcomes[i].error.code :
        i \in {j \in 1..Len(auditOutcomes) : IsError(auditOutcomes[j])}}

RawReport == Unwrap(response.payload)

\* C17: adaptLighthouseResults fails with an error whose message identifies
\* invalid data, and returns no partial result, whenever the raw report lacks
\* a categories map or lacks an audits map.
C17_InvalidDataFails ==
    (rendered # Null
        /\ (RawReport = Null \/ ~RawReport.hasCategories \/ ~RawReport.hasAudits))
    => /\ DOMAIN rendered = {"error"}
       /\ rendered.error.message = "Invalid Lighthouse data."

\* a report that has its categories but no audits map has been refused
C17_Witness ==
    /\ rendered # Null
    /\ RawReport # Null
    /\ RawReport.hasCategories
    /\ ~RawReport.hasAudits
    /\ IsError(rendered)


\* the seven metrics the adapter recognises
RecognisedMetrics ==
    {"first-contentful-paint", "largest-contentful-paint", "total-blocking-time",
     "cumulative-layout-shift", "speed-index", "interactive", "interaction-to-next-paint"}

HasAudit(audits, id) == \E i \in 1..Len(audits) : audits[i].id = id

\* the metric is present in the audits map, the interaction metric also
\* when only its fallback audit is
MetricPresent(audits, id) ==
    \/ HasAudit(audits, id)
    \/ id = "interaction-to-next-paint" /\ HasAudit(audits, "first-input-delay")

CoreVitals == rendered.lighthouseResults.coreVitals

\* C18: the core-vitals list has exactly one entry for each of the seven
\* recognised metrics that is present in the raw audits map (the interaction
\* metric also when only its fallback audit exists) and no entry or
\* placeholder for an absent one; with all seven present its length is 7.
C18_CoreVitalsPresentOnly ==
    (rendered # Null /\ ~IsError(rendered))
    => LET audits == RawReport.audits
           present == {id \in RecognisedMetrics : MetricPresent(audits, id)}
       IN  /\ \A id \in present :
                  Cardinality({i \in 1..Len(CoreVitals) : CoreVitals[i].id = id}) = 1
           /\ \A i \in 1..Len(CoreVitals) :
                  /\ CoreVitals[i].id \in present
                  /\ DOMAIN CoreVitals[i] = {"id", "label", "value", "rating"}
           /\ Len(CoreVitals) = Cardinality(present)
           /\ present = RecognisedMetrics => Len(CoreVitals) = 7

\* a report with the fallback audit but not the interaction audit itself, and
\* with another metric absent, has been adapted
C18_Witness ==
    /\ rendered # Null
    /\ ~IsError(rendered)
    /\ HasAudit(RawReport.audits, "first-input-delay")
    /\ ~HasAudit(RawReport.audits, "interaction-to-next-paint")
    /\ ~HasAudit(RawReport.audits, "speed-index")
    /\ HasAudit(RawReport.audits, "interactive")
    /\ \E i \in 1..Len(CoreVitals) : CoreVitals[i].id = "interaction-to-next-paint"
    /\ Len(CoreVitals) < 7


\* the audit of the raw report an entry of a result list was built from:
\* titles are unique in the reports of RawReports
AuditOf(entry) ==
    CHOOSE a \in {RawReport.audits[i] : i \in 1..Len(RawReport.audits)} :
        a.title = entry.title

\* the audit has numeric display mode and a numeric score below 0.9
QualifiesAsIssue(a) ==
    a.scoreDisplayMode = "numeric" /\ a.score # Missing /\ a.score < 90

QualifyingAudits ==
    {i \in 1..Len(RawReport.audits) : QualifiesAsIssue(RawReport.audits[i])}

Issues == rendered.performanceResults.issues

\* C19: the issue list contains only audits with numeric display mode and a
\* numeric score strictly below 0.9, is sorted by ascending score, has at
\* most 8 entries which are the lowest-scoring qualifying audits, and each
\* entry has severity error if its score is below 0.5 and warning otherwise.
C19_IssueList ==
    (rendered # Null /\ ~IsError(rendered))
    => /\ \A i \in 1..Len(Issues) :
              /\ \E k \in QualifyingAudits : RawReport.audits[k].title = Issues[i].title
              /\ Issues[i].severity =
                     IF AuditOf(Issues[i]).score < 50 THEN "error" ELSE "warning"
       /\ \A i, j \in 1..Len(Issues) :
              /\ i < j => AuditOf(Issues[i]).score <= AuditOf(Issues[j]).score
              /\ i # j => Issues[i].title # Issues[j].title
       /\ Len(Issues) = Min(8, Cardinality(QualifyingAudits))
       /\ \A k \in QualifyingAudits :
              (\A i \in 1..Len(Issues) : Issues[i].title # RawReport.audits[k].title)
              => \A i \in 1..Len(Issues) :
                     AuditOf(Issues[i]).score <= RawReport.audits[k].score

\* more than eight audits qualified, a lower-scoring one after the eighth,
\* and the eight listed are of both severities
C19_Witness ==
    /\ rendered # Null
    /\ ~IsError(rendered)
    /\ Cardinality(QualifyingAudits) > 8
    /\ Len(Issues) = 8
    /\ \E k, l \in QualifyingAudits :
           /\ k < l
           /\ RawReport.audits[l].score < RawReport.audits[k].score
           /\ Cardinality({m \in QualifyingAudits : m < l}) >= 8
    /\ \E i \in 1..8 : Issues[i].severity = "error"
    /\ \E i \in 1..8 : Issues[i].severity = "warning"
    /\ \E i \in 1..Len(RawReport.audits) :
           RawReport.audits[i].scoreDisplayMode # "numeric" /\ RawReport.audits[i].score < 90


\* the estimated time saving of an audit, none counting as 0
SavingOf(a) == IF a.overallSavingsMs = Missing THEN 0 ELSE a.overallSavingsMs

OpportunityAudits ==
    {i \in 1..Len(RawReport.audits) : RawReport.audits[i].detailsType = "opportunity"}

Recommendations == rendered.performanceResults.recommendations

\* C20: the recommendation list contains only opportunity-type audits, is
\* sorted by descending estimated time saving, has at most 8 entries which
\* are the ones with the largest savings, and each entry has priority high if
\* the saving exceeds 1200 ms, medium if it exceeds 300 ms, and low otherwise.
C20_RecommendationList ==
    (rendered # Null /\ ~IsError(rendered))
    => /\ \A i \in 1..Len(Recommendations) :
              /\ \E k \in OpportunityAudits :
                     RawReport.audits[k].title = Recommendations[i].title
              /\ Recommendations[i].priority =
                     IF SavingOf(AuditOf(Recommendations[i])) > 1200 THEN "high"
                     ELSE IF SavingOf(AuditOf(Recommendations[i])) > 300 THEN "medium"
                     ELSE "low"
       /\ \A i, j \in 1..Len(Recommendations) :
              /\ i < j => SavingOf(AuditOf(Recommendations[i]))
                              >= SavingOf(AuditOf(Recommendations[j]))
              /\ i # j => Recommendations[i].title # Recommendations[j].title
       /\ Len(Recommendations) = Min(8, Cardinality(OpportunityAudits))
       /\ \A k \in OpportunityAudits :
              (\A i \in 1..Len(Recommendations) :
                   Recommendations[i].title # RawReport.audits[k].title)
              => \A i \in 1..Len(Recommendations) :
                     SavingOf(AuditOf(Recommendations[i])) >= SavingOf(RawReport.audits[k])

\* more than eight opportunities, a larger saving after the eighth, savings
\* on both limits among them, and the eight listed are of all three
\* priorities
C20_Witness ==
    /\ rendered # Null
    /\ ~IsError(rendered)
    /\ Cardinality(OpportunityAudits) > 8
    /\ Len(Recommendations) = 8
    /\ \E k, l \in OpportunityAudits :
           /\ k < l
           /\ SavingOf(RawReport.audits[l]) > SavingOf(RawReport.audits[k])
           /\ Cardinality({m \in OpportunityAudits : m < l}) >= 8
    /\ \E i \in 1..8 : Recommendations[i].priority = "high"
    /\ \E i \in 1..8 : Recommendations[i].priority = "medium"
                       /\ SavingOf(AuditOf(Recommendations[i])) = 1200
    /\ \E i \in 1..8 : Recommendations[i].priority = "low"
                       /\ SavingOf(AuditOf(Recommendations[i])) = 300
    /\ \E i \in 1..Len(RawReport.audits) :
           RawReport.audits[i].detailsType # "opportunity"
           /\ RawReport.audits[i].overallSavingsMs > 1200


BaseMessages == {"Excellent", "Good job", "Decent", "Several issues", "Significant problems"}

Summary == scoreResults.summary

\* position of a message in the summary, 0 when it is not there
PositionIn(list, message) ==
    IF \E i \in 1..Len(list) : list[i] = message
    THEN CHOOSE i \in 1..Len(list) : list[i] = message
    ELSE 0

\* C21: the summary is exactly one base message selected by the score band
\* (>= 90, >= 75, >= 60, >= 40, else), followed by the size, duplication and
\* performance advisory lines in that order, each present exactly when its
\* own component score is strictly below 80, independently of the others.
C21_SummaryMessages ==
    scoreResults # Null
    => LET score == scoreResults.score
           size == PositionIn(Summary, "size advice")
           dup == PositionIn(Summary, "duplication advice")
           perf == PositionIn(Summary, "performance advice")
       IN  /\ Len(Summary) >= 1
           /\ Summary[1] \in BaseMessages
           /\ Summary[1] = "Excellent" <=> score >= 90
           /\ Summary[1] = "Good job" <=> (score >= 75 /\ score < 90)
           /\ Summary[1] = "Decent" <=> (score >= 60 /\ score < 75)
           /\ Summary[1] = "Several issues" <=> (score >= 40 /\ score < 60)
           /\ Summary[1] = "Significant problems" <=> score < 40
           /\ \A i \in 2..Len(Summary) : Summary[i] \notin BaseMessages
           /\ \A i, j \in 1..Len(Summary) : i # j => Summary[i] # Summary[j]
           /\ size # 0 <=> Details.sizeScore < 80
           /\ dup # 0 <=> Details.duplicationScore < 80
           /\ perf # 0 <=> Details.performanceScore < 80
           /\ Len(Summary) = 1 + (IF size # 0 THEN 1 ELSE 0) + (IF dup # 0 THEN 1 ELSE 0)
                               + (IF perf # 0 THEN 1 ELSE 0)
           /\ (size # 0 /\ dup # 0) => size < dup
           /\ (dup # 0 /\ perf # 0) => dup < perf
           /\ (size # 0 /\ perf # 0) => size < perf

\* a report scored with its size component exactly 80, its duplication
\* component below 80 and its performance component above: two messages
C21_Witness ==
    /\ scoreResults # Null
    /\ Details.sizeScore = 80
    /\ Details.duplicationScore < 80
    /\ Details.performanceScore > 80
    /\ Len(Summary) = 2
    /\ Summary[2] = "duplication advice"


\* the titles of the recommendation list of analyzePerformance, in order
RecommendationTitles ==
    [i \in 1..Len(performanceResults.recommendations) |->
        performanceResults.recommendations[i].title]

\* the recommendations that depend on the shares of JS and CSS bytes
ShareRecommendations ==
    (IF 2 * Bytes(files, {"js"}) > Bytes(files, {"html", "css", "js", "unknown"})
     THEN <<"Reduce JavaScript Execution Time">> ELSE <<>>)
    \o (IF 10 * Bytes(files, {"css"}) > 3 * Bytes(files, {"html", "css", "js", "unknown"})
        THEN <<"Optimize CSS Delivery">> ELSE <<>>)

\* some HTML file of the set does not contain the text 'cache-control'
SomeHtmlWithoutCacheControl ==
    \E i \in 1..Len(files) : files[i].type = "html" /\ ~files[i].content.hasCacheControl

DomQueries ==
    UNION {{files[i].content.domQueries[j] : j \in 1..Len(files[i].content.domQueries)} :
              i \in {k \in 1..Len(files) : files[k].type = "js"}}

\* how often the expression occurs in the JavaScript files of the set
DomQueryOccurrences(query) ==
    LET acc[i \in 0..Len(files)] ==
            IF i = 0 THEN 0
            ELSE acc[i - 1]
                 + (IF files[i].type = "js"
                    THEN Cardinality({j \in 1..Len(files[i].content.domQueries) :
                                         files[i].content.domQueries[j] = query})
                    ELSE 0)
    IN  acc[Len(files)]

\* the 'Repeated DOM Query' findings for the expression
DomQueryFindings(query) ==
    {i \in 1..Len(duplicationResults.duplicates) :
        /\ duplicationResults.duplicates[i].title = "Repeated DOM Query"
        /\ duplicationResults.duplicates[i].code = query}

\* C24: a DOM-query call expression that occurs exactly 3 times in the
\* JavaScript input never produces a 'Repeated DOM Query' finding, and one
\* that occurs 4 or more times produces exactly one such finding for that
\* expression.
C24_RepeatedDomQuery ==
    duplicationResults # Null
    => \A query \in DomQueries :
           /\ DomQueryOccurrences(query) = 3 => DomQueryFindings(query) = {}
           /\ DomQueryOccurrences(query) >= 4 => Cardinality(DomQueryFindings(query)) = 1

\* one expression occurs exactly 3 times and has no finding, another occurs
\* exactly 4 times and has one
C24_Witness ==
    /\ duplicationResults # Null
    /\ \E q3, q4 \in DomQueries :
           /\ DomQueryOccurrences(q3) = 3
           /\ DomQueryFindings(q3) = {}
           /\ DomQueryOccurrences(q4) = 4
           /\ Cardinality(DomQueryFindings(q4)) = 1


\* the universal-selector blocks in all the CSS files of the set
UniversalSelectorBlocks ==
    LET acc[i \in 0..Len(files)] ==
            IF i = 0 THEN 0
            ELSE acc[i - 1] + (IF files[i].type = "css"
                               THEN files[i].content.universalSelectors ELSE 0)
    IN  acc[Len(files)]

UniversalSelectorFindings ==
    SelectSeq(duplicationResults.duplicates,
              LAMBDA d : d.title = "Multiple Universal Selectors")

\* C25: for CSS input with N universal-selector blocks in total across all
\* CSS files, detectDuplication emits exactly one 'Multiple Universal
\* Selectors' warning reporting the count N when N > 1 (never one finding
\* per occurrence), and none when N <= 1.
C25_UniversalSelectors ==
    duplicationResults # Null
    => IF UniversalSelectorBlocks > 1
       THEN /\ Len(UniversalSelectorFindings) = 1
            /\ UniversalSelectorFindings[1].severity = "warning"
            /\ UniversalSelectorFindings[1].count = UniversalSelectorBlocks
       ELSE UniversalSelectorFindings = <<>>

\* three blocks in two CSS files, one finding that reports 3
C25_Witness ==
    /\ duplicationResults # Null
    /\ Len(files) = 2
    /\ files[1].type = "css" /\ files[1].content.universalSelectors = 1
    /\ files[2].type = "css" /\ files[2].content.universalSelectors = 2
    /\ Len(UniversalSelectorFindings) = 1
    /\ UniversalSelectorFindings[1].count = 3


\* C26: for every non-negative integer n, formatBytes returns '0 Bytes' for
\* n = 0 and otherwise a number followed by a unit label that is always one
\* of Bytes, KB or MB: Bytes for n < 1024, KB for 1024 <= n < 1 048 576, and
\* MB for every n >= 1 048 576.
C26_UnitLabel ==
    \A c \in 1..Len(invocations) :
        invocations[c].fn = "formatBytes"
        => LET n == invocations[c].args
               text == invocations[c].value
           IN  /\ n = 0 => text = [value |-> 0, unit |-> "Bytes"]
               /\ text.unit \in {"Bytes", "KB", "MB"}
               /\ text.unit = "Bytes" <=> n < 1024
               /\ text.unit = "KB" <=> (n >= 1024 /\ n < 1048576)
               /\ text.unit = "MB" <=> n >= 1048576

\* the same below 1024^3 bytes
C26_UnitLabelBelowGiB ==
    \A c \in 1..Len(invocations) :
        (invocations[c].fn = "formatBytes" /\ invocations[c].args < 1073741824)
        => LET n == invocations[c].args
               text == invocations[c].value
           IN  /\ n = 0 => text = [value |-> 0, unit |-> "Bytes"]
               /\ text.unit \in {"Bytes", "KB", "MB"}
               /\ text.unit = "Bytes" <=> n < 1024
               /\ text.unit = "KB" <=> (n >= 1024 /\ n < 1048576)
               /\ text.unit = "MB" <=> n >= 1048576

\* the texts the repository's tests expect: '1.52 KB' for 1555, '1 MB' for
\* 1 048 576
C26_TestValues ==
    \A c \in 1..Len(invocations) :
        invocations[c].fn = "formatBytes"
        => /\ invocations[c].args = 1555
                => invocations[c].value = [value |-> 152, unit |-> "KB"]
           /\ invocations[c].args = 1048576
                => invocations[c].value = [value |-> 100, unit |-> "MB"]
           /\ invocations[c].args = 1536
                => invocations[c].value = [value |-> 150, unit |-> "KB"]
           /\ invocations[c].args = 1610612736
                => invocations[c].value = [value |-> 150, unit |-> "undefined"]


\* the points calculateScore deducts for the total size
BundleSizeDeduction ==
    SumPoints(SelectSeq(Details.deductions,
                        LAMBDA d : d.reason \in {"Bundle size > 1MB", "Bundle size > 500KB",
                                                 "Bundle size > 250KB"}))

\* C27: the size analyzer and the scorer read the byte thresholds the same
\* way: analyzeSizes reports 'Large Bundle Size' exactly when calculateScore
\* deducts at least 20 points for the total size of the same report.
C27_ConsistentThresholds ==
    scoreResults # Null =>
        (IssueCount(sizeResults.issues, "Large Bundle Size") > 0
            <=> BundleSizeDeduction >= 20)

\* the two agree outside the totals from 500 001 to 512 000 bytes
C27_AgreeOutsideGap ==
    (scoreResults # Null
     /\ (sizeResults.totalSize <= 500000 \/ sizeResults.totalSize > 512000))
    => (IssueCount(sizeResults.issues, "Large Bundle Size") > 0
            <=> BundleSizeDeduction >= 20)

\* the 512 000-byte file of the repository's boundary test is reported as a
\* large bundle and costs 10 points for its size
C27_BoundaryFile ==
    (scoreResults # Null /\ sizeResults.totalSize = 512000)
    => /\ IssueCount(sizeResults.issues, "Large Bundle Size") = 1
       /\ BundleSizeDeduction = 10


\* C28: at most one analysis is in flight at any time: while a run that
\* entered the loading state has not finished, no second run is started, the
\* analyze button is disabled and the results section is marked busy.
C28_OneRunInFlight ==
    /\ Cardinality(Pending) <= 1
    /\ Pending # {} => (loading /\ resultsSection.busy)

\* two runs are in flight, the second one started by the Enter key
C28_TwoInFlight ==
    /\ Len(runs) = 2
    /\ Pending = {1, 2}
    /\ runs[1].trigger = "button"
    /\ runs[2].trigger = "enter"


\* C29: after switchMode the results section stays hidden until an analysis
\* started after the switch shows it: it is never made visible, with a report
\* or an error card, by a run that was pending when switchMode was called.
C29_HiddenAfterSwitch ==
    ~resultsSection.hidden
    => \/ resultsSection.shownBy = 0
       \/ ~runs[resultsSection.shownBy].switched

\* a URL audit started before a switch to paste mode has put its report on
\* the page of the paste mode
C29_StaleReportShown ==
    /\ currentMode = "paste"
    /\ Len(runs) = 1
    /\ runs[1].kind = "lighthouse" /\ runs[1].state = "finished" /\ runs[1].switched
    /\ ~resultsSection.hidden
    /\ resultsMode = "lighthouse"
    /\ rendered # Null

\* the section is only ever shown by a run that has finished or by an
\* analysis that ended before loading
C29_ShownByStarted ==
    ~resultsSection.hidden
    => \/ resultsSection.shownBy = 0
       \/ /\ resultsSection.shownBy \in 1..Len(runs)
          /\ runs[resultsSection.shownBy].state = "finished"


\* runLighthouse has settled after launching a browser
SettledWithBrowser == serverPc = "responded" /\ chrome # "none"

C30_TimeoutPath ==
    SettledWithBrowser /\ chrome = "killed" /\ response.status = 504

C30_MismatchPath ==
    /\ SettledWithBrowser /\ chrome = "killed"
    /\ ~IsError(withTimeoutSettled) /\ ~withTimeoutSettled.result.mobile
    /\ response.status = 500

C30_RunnerErrorPath ==
    /\ SettledWithBrowser /\ chrome = "killed"
    /\ IsError(withTimeoutSettled) /\ withTimeoutSettled.error.code = ""
    /\ response.status = 500

====
